---- MODULE Spec2Model ----
(***************************************************************************)
(* Track lifecycle of one ByteTrackDetectorService supervisor             *)
(* (src/src/domain/services/bytetrack_detector_service.py) together with  *)
(* the Track entity (src/src/domain/entities/track_entity.py).            *)
(*                                                                         *)
(* The supervisor is single threaded.  The only other actors are stop(),  *)
(* which may be called from outside and only clears the running flag, and *)
(* the user interrupt (KeyboardInterrupt), which run.py lets arrive in    *)
(* the thread that executes start().  The interrupt is taken at the       *)
(* blocking calls of _process_stream: the source read, the construction   *)
(* and scoring of an Event, and the backoff sleep.  The table update of   *)
(* one detection (lines 156-163) and one _update_lost_tracks call are     *)
(* steps of that single thread and are taken as one action each.          *)
(*                                                                         *)
(* Eight further specifications share the module: RunSpec / RunFairSpec,    *)
(* the launchers of src/run.py and src/detectorrbt.py with the loop of     *)
(* each camera's supervisor; CamSpec, the CameraProcessor of               *)
(* src/camera_processor.py with its lock, attempt counter and batches;     *)
(* TrackSpec, the Track entity alone; QualitySpec, the quality scorers     *)
(* (FaceQualityService and get_face_quality_score) applied to one          *)
(* detection; PersistSpec, the saving and submitting of one best           *)
(* observation by the service and by TrackProcessor; NameSpec, the paths   *)
(* under which the cameras of one process write their files; EventIdSpec,  *)
(* the identifiers given to events; RoiSpec, the region of interest that   *)
(* FindfaceAdapter.send_event submits.  Each specification keeps the       *)
(* variables of the others at their idle values.                           *)
(***************************************************************************)
EXTENDS Integers, Sequences, FiniteSets, TLC

(* ---- bounds of the model ---- *)
NumIds == 2
MaxThreshold == 3
MaxEvents == 3
MaxDet == 2
NumCams == 2
MaxFrames == 2
MaxAttempts == 2
MaxBatch == 2
MaxFrameCount == 3
MaxScore == 2
MaxLen == 3
MaxPixels == 3
MaxClock == 2
MaxWrites == 2
MaxMinted == 4

Ids == 1..NumIds
Cams == 1..NumCams

(* what a detection may carry besides its identity: the quality score of   *)
(* its Event and its bounding box (x1, y1, x2, y2).  The two boxes have    *)
(* centres 80 px apart, so a Track can repeat a score (a tie for the best  *)
(* event), improve on it, stand still or move                              *)
Detections ==
    { [score |-> 1, bbox |-> <<0, 0, 10, 13>>],
      [score |-> 2, bbox |-> <<80, 0, 90, 13>>] }

(* ---- program constants ---- *)
min_movement_threshold == 50
(* min_movement_percentage = 0.3 as the fraction PctNum / PctDen *)
PctNum == 3
PctDen == 10

VARIABLES
    running,               \* self.running
    pc,                    \* position of the thread inside start()/_process_stream
    max_frames_lost,       \* self.max_frames_lost
    findface_adapter,      \* TRUE iff self.findface_adapter is not None
    active_tracks,         \* self.active_tracks: identity -> Track object (its index in tracks)
    track_frames_lost,     \* self.track_frames_lost: identity -> miss counter
    tracks,                \* every Track object ever created: its _events list
    event_id_counter,      \* self._event_id_counter
    current_frame_tracks,  \* local current_frame_tracks of the frame being processed
    ndet,                  \* number of boxes of the current frame already iterated
    saved,                 \* per Track object: the _save_best_event calls made for it
    sent,                  \* per Track object: the _send_best_event_to_findface calls made for it
    missed,                \* per identity in the table: fully processed frames without it since its last observation
    drained,               \* TRUE once _finalize_all_tracks has returned
    drained_ids,           \* the identities that _finalize_all_tracks found in active_tracks
    evicted_now,           \* the identities finalized by the tick that ended the last frame
    interrupted,           \* TRUE once a KeyboardInterrupt was raised in the thread
    save_failed,           \* TRUE iff a _save_best_event call of the last step failed
    send_failed,           \* TRUE iff a _send_best_event_to_findface call of the last step failed
    launcher,              \* which main() runs: "run" (src/run.py) or "detectorrbt" (src/detectorrbt.py)
    main_pc,               \* position of the main thread
    next_proc,             \* index of the next processor the start loop of main handles
    proc_pc,               \* per camera: position of its supervisor
    proc_running,          \* per camera: processor.running
    proc_frames,           \* per camera: frames processed so far
    proc_attempts,         \* per camera: model.track(...) calls made so far, counted up to MaxAttempts
    source_up,             \* per camera: TRUE iff its source delivers frames
    lock,                  \* CameraProcessor: TRUE iff self.lock is held
    attempts,              \* CameraProcessor: local attempts of _process_stream
    seen_since_tick,       \* CameraProcessor: identities detected since the last _update_lost_tracks call of this connection
    failed_attempts,       \* CameraProcessor: attempts that failed in a row with no frame read in between, counted up to max_reconnect_attempts
    frame_count,           \* CameraProcessor: local frame_count of _process_stream
    batch_size,            \* CameraProcessor: self.batch_size
    max_reconnect_attempts, \* CameraProcessor: self.max_reconnect_attempts
    track_ids,             \* CameraProcessor: identities the running finalization loop has still to handle
    caller,                \* CameraProcessor: which loop calls _finalize_track
    track_events,          \* Track entity on its own: self._events
    best,                  \* Track entity on its own: the result of the last get_best_event() call
    movement,              \* Track entity on its own: the last has_movement() call, its arguments and result
    quality,               \* quality scorer on its own: one detection, who scored it, the frontality sub-score and the score
    persisted,             \* finalizer on its own: the frame of a best observation, the file written and the image submitted
    naming,                \* file naming on its own: the clock, the best timestamp of each camera's live tracks, the paths written
    submission,            \* remote sink on its own: the bounding box of the event sent and the region of interest submitted
    minting                \* event identifiers on their own: the counters, each thread's position, the ids given out

service_vars ==
    << running, pc, max_frames_lost, findface_adapter, active_tracks,
       track_frames_lost, tracks, event_id_counter, current_frame_tracks,
       ndet, saved, sent, missed, drained, drained_ids, evicted_now,
       interrupted, save_failed, send_failed >>

run_vars ==
    << launcher, main_pc, next_proc, proc_pc, proc_running, proc_frames,
       proc_attempts, source_up >>

cam_vars ==
    << lock, attempts, failed_attempts, seen_since_tick, frame_count, batch_size,
       max_reconnect_attempts, track_ids, caller >>

entity_vars ==
    << track_events, best, movement, quality, persisted, naming, minting, submission >>

vars == << service_vars, run_vars, cam_vars, entity_vars >>

(* ---- dictionaries ---- *)
EmptyDict == [x \in {} |-> 0]

DictSet(d, k, v) == [x \in (DOMAIN d) \cup {k} |-> IF x = k THEN v ELSE d[x]]

DictDel(d, k) == [x \in (DOMAIN d) \ {k} |-> d[x]]

(* ---- Track entity ---- *)
is_empty(events) == Len(events) = 0

event_count(events) == Len(events)

(* add_event that puts the new event in front of the list *)
add_event_front(events, event) == << event >> \o events

(* Track.add_event, line 71: self._events.append(event) *)
add_event(events, event) == Append(events, event)

(* the value None; no Event has id 0 *)
None == [ id |-> 0, score |-> 0, bbox |-> <<0, 0, 0, 0>> ]

(* Python's max(events, key=score) from position i on, with the largest so *)
(* far in found: a later element replaces it only when its key is greater  *)
RECURSIVE MaxFrom(_, _, _)
MaxFrom(events, i, found) ==
    IF i > Len(events) THEN found
    ELSE MaxFrom(events, i + 1,
                 IF events[i].score > found.score THEN events[i] ELSE found)

(* a max that lets a later element replace an equal one *)
RECURSIVE LastMaxFrom(_, _, _)
LastMaxFrom(events, i, found) ==
    IF i > Len(events) THEN found
    ELSE LastMaxFrom(events, i + 1,
                     IF events[i].score >= found.score THEN events[i] ELSE found)

(* get_best_event that returns the last of the events holding the maximum *)
get_best_event_last(events) ==
    IF is_empty(events) THEN None
    ELSE LastMaxFrom(events, 2, events[1])

(* Track.get_best_event: None for an empty Track, else                     *)
(* max(self._events, key=lambda e: e.face_quality_score.value())           *)
get_best_event(events) ==
    IF is_empty(events) THEN None
    ELSE MaxFrom(events, 2, events[1])

(* no has_movement() call has been made *)
NotAsked == [ called |-> FALSE, threshold |-> 0, pct |-> <<0, 1>>, result |-> FALSE ]

(* no detection is being scored *)
NoDetection ==
    [ by |-> "nobody", bbox |-> <<0, 0, 0, 0>>, confidence |-> <<0, 1>>,
      landmarks |-> << >>, laplacian_var |-> 0, pesos |-> <<0, 0, 0, 0, 0>>,
      qualidade_cfg |-> <<0, 0>>, frontal |-> <<0, 1>>, score |-> <<0, 1>> ]

(* the value None for an image *)
NoImage == [ format |-> "none", pixels |-> << >> ]

(* no best observation is being persisted *)
NothingPersisted ==
    [ by |-> "nobody", pc |-> "idle", original |-> << >>, frame |-> << >>, at |-> 0,
      has_movement |-> FALSE, findface |-> FALSE, file |-> NoImage, submitted |-> NoImage ]

(* no file is being named *)
NothingNamed ==
    [ by |-> "nobody", now |-> 0, best_timestamp |-> << >>, files |-> {}, writes |-> 0 ]

(* no event is being submitted *)
NothingSubmitted == [ pc |-> "idle", bbox |-> <<0, 0, 0, 0>>, roi |-> << >> ]

(* no event is being created *)
NothingMinted ==
    [ by |-> "nobody", _event_id_counter |-> << >>, _id_counter |-> 0, pc |-> << >>,
      loaded |-> << >>, ids |-> << >> ]

(* twice the centre of a bounding box, so that it stays an integer *)
Center2(bbox) == << bbox[1] + bbox[3], bbox[2] + bbox[4] >>

(* distance between consecutive centres >= threshold, squared on both sides *)
MovedBetween(e1, e2, min_threshold_pixels) ==
    LET c1 == Center2(e1.bbox)
        c2 == Center2(e2.bbox)
        dx == c2[1] - c1[1]
        dy == c2[2] - c1[2]
    IN  dx * dx + dy * dy >= 4 * min_threshold_pixels * min_threshold_pixels

(* has_movement without the special case of lines 147-149 for one event *)
has_movement_single_static(events, min_threshold_pixels, pct_num, pct_den) ==
    IF event_count(events) < 2 THEN FALSE
    ELSE LET total_comparisons == Len(events) - 1
             movements_detected ==
                 Cardinality({ i \in 1..total_comparisons :
                                 MovedBetween(events[i], events[i + 1], min_threshold_pixels) })
         IN  movements_detected * pct_den >= pct_num * total_comparisons

(* has_movement that divides by the number of events, not of comparisons *)
has_movement_per_event(events, min_threshold_pixels, pct_num, pct_den) ==
    IF event_count(events) = 1 THEN TRUE
    ELSE IF event_count(events) < 2 THEN FALSE
    ELSE LET total_comparisons == Len(events) - 1
             movements_detected ==
                 Cardinality({ i \in 1..total_comparisons :
                                 MovedBetween(events[i], events[i + 1], min_threshold_pixels) })
         IN  movements_detected * pct_den >= pct_num * Len(events)

(* Track.has_movement (lines 128-183); min_frame_percentage is the fraction *)
(* pct_num / pct_den and the division of line 180 is cross-multiplied       *)
has_movement(events, min_threshold_pixels, pct_num, pct_den) ==
    IF event_count(events) = 1 THEN TRUE
    ELSE IF event_count(events) < 2 THEN FALSE
    ELSE LET total_comparisons == Len(events) - 1
             movements_detected ==
                 Cardinality({ i \in 1..total_comparisons :
                                 MovedBetween(events[i], events[i + 1], min_threshold_pixels) })
         IN  movements_detected * pct_den >= pct_num * total_comparisons

(* ---- table operations of the service ---- *)
(* save_fail / send_fail: the disk (cv2.imwrite), respectively the FindFace  *)
(* server, is failing while the table is updated; save_failed / send_failed: *)
(* a save, respectively a send, was attempted and failed                      *)
TableState ==
    [ active |-> active_tracks, lost |-> track_frames_lost,
      saved |-> saved, sent |-> sent, raised |-> FALSE,
      save_fail |-> FALSE, send_fail |-> FALSE,
      save_failed |-> FALSE, send_failed |-> FALSE ]

TableStateFailing(save_fail, send_fail) ==
    [ TableState EXCEPT !.save_fail = save_fail, !.send_fail = send_fail ]

(* _finalize_track without the two `del` statements *)
FinalizeTrackNoDelete(st, track_id) ==
    IF st.raised \/ track_id \notin DOMAIN st.active THEN st
    ELSE LET uid == st.active[track_id]
             events == tracks[uid]
             moved == has_movement(events, min_movement_threshold, PctNum, PctDen)
             call == [ track_id |-> track_id, event |-> get_best_event(events),
                       total_events |-> event_count(events), has_movement |-> moved ]
         IN  [st EXCEPT !.saved[uid] = Append(@, call),
                        !.sent[uid] = IF findface_adapter /\ moved
                                      THEN Append(@, call) ELSE @]

(* _finalize_track without `del self.active_tracks[track_id]` *)
FinalizeTrackKeepActive(st, track_id) ==
    IF st.raised \/ track_id \notin DOMAIN st.active THEN st
    ELSE LET uid == st.active[track_id]
             events == tracks[uid]
             moved == has_movement(events, min_movement_threshold, PctNum, PctDen)
             call == [ track_id |-> track_id, event |-> get_best_event(events),
                       total_events |-> event_count(events), has_movement |-> moved ]
         IN  [st EXCEPT !.lost = DictDel(@, track_id),
                        !.saved[uid] = Append(@, call),
                        !.sent[uid] = IF findface_adapter /\ moved
                                      THEN Append(@, call) ELSE @]

(* _finalize_track without `del self.track_frames_lost[track_id]` *)
FinalizeTrackKeepCounter(st, track_id) ==
    IF st.raised \/ track_id \notin DOMAIN st.active THEN st
    ELSE LET uid == st.active[track_id]
             events == tracks[uid]
             moved == has_movement(events, min_movement_threshold, PctNum, PctDen)
             call == [ track_id |-> track_id, event |-> get_best_event(events),
                       total_events |-> event_count(events), has_movement |-> moved ]
         IN  [st EXCEPT !.active = DictDel(@, track_id),
                        !.saved[uid] = Append(@, call),
                        !.sent[uid] = IF findface_adapter /\ moved
                                      THEN Append(@, call) ELSE @]

(* _finalize_track that returns before saving when the track did not move *)
FinalizeTrackDropStatic(st, track_id) ==
    IF st.raised \/ track_id \notin DOMAIN st.active THEN st
    ELSE LET uid == st.active[track_id]
             events == tracks[uid]
             moved == has_movement(events, min_movement_threshold, PctNum, PctDen)
             call == [ track_id |-> track_id, event |-> get_best_event(events),
                       total_events |-> event_count(events), has_movement |-> moved ]
         IN  [st EXCEPT !.active = DictDel(@, track_id),
                        !.lost = DictDel(@, track_id),
                        !.saved[uid] = IF moved THEN Append(@, call) ELSE @,
                        !.sent[uid] = IF findface_adapter /\ moved
                                      THEN Append(@, call) ELSE @]

(* _finalize_track that sends without the `and has_movement` test (line 313) *)
FinalizeTrackSendAlways(st, track_id) ==
    IF st.raised \/ track_id \notin DOMAIN st.active THEN st
    ELSE LET uid == st.active[track_id]
             events == tracks[uid]
             moved == has_movement(events, min_movement_threshold, PctNum, PctDen)
             call == [ track_id |-> track_id, event |-> get_best_event(events),
                       total_events |-> event_count(events), has_movement |-> moved ]
         IN  [st EXCEPT !.active = DictDel(@, track_id),
                        !.lost = DictDel(@, track_id),
                        !.saved[uid] = Append(@, call),
                        !.save_failed = @ \/ st.save_fail,
                        !.sent[uid] = IF findface_adapter
                                      THEN Append(@, call) ELSE @,
                        !.send_failed = @ \/ (findface_adapter /\ st.send_fail)]

(* _save_best_event without its try/except: a failing cv2.imwrite leaves   *)
(* _finalize_track before the send and propagates to the caller            *)
FinalizeTrackSaveRaises(st, track_id) ==
    IF st.raised \/ track_id \notin DOMAIN st.active THEN st
    ELSE LET uid == st.active[track_id]
             events == tracks[uid]
             moved == has_movement(events, min_movement_threshold, PctNum, PctDen)
             call == [ track_id |-> track_id, event |-> get_best_event(events),
                       total_events |-> event_count(events), has_movement |-> moved ]
         IN  IF st.save_fail
             THEN [st EXCEPT !.active = DictDel(@, track_id),
                             !.lost = DictDel(@, track_id),
                             !.saved[uid] = Append(@, call),
                             !.save_failed = TRUE,
                             !.raised = TRUE]
             ELSE [st EXCEPT !.active = DictDel(@, track_id),
                             !.lost = DictDel(@, track_id),
                             !.saved[uid] = Append(@, call),
                             !.sent[uid] = IF findface_adapter /\ moved
                                           THEN Append(@, call) ELSE @,
                             !.send_failed = @ \/ (findface_adapter /\ moved
                                                     /\ st.send_fail)]

(* _finalize_track that submits the best event a second time when the     *)
(* first submission failed                                                *)
FinalizeTrackRetrySend(st, track_id) ==
    IF st.raised THEN st
    ELSE IF track_id \notin DOMAIN st.active THEN st
    ELSE LET uid == st.active[track_id]
             events == tracks[uid]
         IN  IF is_empty(events)
             THEN IF track_id \in DOMAIN st.lost
                  THEN [st EXCEPT !.active = DictDel(@, track_id),
                                  !.lost = DictDel(@, track_id)]
                  ELSE [st EXCEPT !.active = DictDel(@, track_id),
                                  !.raised = TRUE]
             ELSE LET moved == has_movement(events, min_movement_threshold, PctNum, PctDen)
                      best_event == get_best_event(events)
                      call == [ track_id |-> track_id, event |-> best_event,
                                total_events |-> event_count(events),
                                has_movement |-> moved ]
                  IN  [st EXCEPT !.active = DictDel(@, track_id),
                                 !.lost = DictDel(@, track_id),
                                 !.saved[uid] = Append(@, call),
                                 !.save_failed = @ \/ st.save_fail,
                                 !.sent[uid] = IF findface_adapter /\ moved
                                               THEN IF st.send_fail
                                                    THEN Append(Append(@, call), call)
                                                    ELSE Append(@, call)
                                               ELSE @,
                                 !.send_failed = @ \/ (findface_adapter /\ moved
                                                         /\ st.send_fail)]

(* _finalize_track(track_id) applied to table state st; st.raised records a *)
(* KeyError of `del self.track_frames_lost[track_id]` that is propagating   *)
FinalizeTrack(st, track_id) ==
    IF st.raised THEN st
    ELSE IF track_id \notin DOMAIN st.active THEN st
    ELSE LET uid == st.active[track_id]
             events == tracks[uid]
         IN  IF is_empty(events)
             THEN IF track_id \in DOMAIN st.lost
                  THEN [st EXCEPT !.active = DictDel(@, track_id),
                                  !.lost = DictDel(@, track_id)]
                  ELSE [st EXCEPT !.active = DictDel(@, track_id),
                                  !.raised = TRUE]
             ELSE LET moved == has_movement(events, min_movement_threshold, PctNum, PctDen)
                      best_event == get_best_event(events)
                      call == [ track_id |-> track_id, event |-> best_event,
                                total_events |-> event_count(events),
                                has_movement |-> moved ]
                  IN  [st EXCEPT !.active = DictDel(@, track_id),
                                 !.lost = DictDel(@, track_id),
                                 !.saved[uid] = Append(@, call),
                                 !.save_failed = @ \/ st.save_fail,
                                 !.sent[uid] = IF findface_adapter /\ moved
                                               THEN Append(@, call) ELSE @,
                                 !.send_failed = @ \/ (findface_adapter /\ moved
                                                         /\ st.send_fail)]

(* the loop `for track_id in ids: self._finalize_track(track_id)`; the     *)
(* tracks finalized by one loop have distinct identities and distinct      *)
(* Track objects, so the order of the list does not show in the result     *)
RECURSIVE FinalizeEach(_, _)
FinalizeEach(st, ids) ==
    IF ids = {} THEN st
    ELSE LET track_id == CHOOSE t \in ids : \A u \in ids : t <= u
         IN  FinalizeEach(FinalizeTrack(st, track_id), ids \ {track_id})

(* _update_lost_tracks comparing with `>` instead of `>=` *)
UpdateLostTracksStrict(st, present) ==
    LET counted == [t \in DOMAIN st.lost |->
                       IF t \notin present THEN st.lost[t] + 1 ELSE st.lost[t]]
        tracks_to_finalize == { t \in DOMAIN st.lost :
                                  t \notin present /\ counted[t] > max_frames_lost }
    IN  FinalizeEach([st EXCEPT !.lost = counted], tracks_to_finalize)

(* _update_lost_tracks testing the threshold before the counter is advanced *)
UpdateLostTracksTestFirst(st, present) ==
    LET counted == [t \in DOMAIN st.lost |->
                       IF t \notin present THEN st.lost[t] + 1 ELSE st.lost[t]]
        tracks_to_finalize == { t \in DOMAIN st.lost :
                                  t \notin present /\ st.lost[t] >= max_frames_lost }
    IN  FinalizeEach([st EXCEPT !.lost = counted], tracks_to_finalize)

(* _update_lost_tracks without the `track_id not in current_frame_tracks` test *)
UpdateLostTracksCountAll(st, present) ==
    LET counted == [t \in DOMAIN st.lost |-> st.lost[t] + 1]
        tracks_to_finalize == { t \in DOMAIN st.lost : counted[t] >= max_frames_lost }
    IN  FinalizeEach([st EXCEPT !.lost = counted], tracks_to_finalize)

UpdateLostTracks(st, present) ==
    LET counted == [t \in DOMAIN st.lost |->
                       IF t \notin present THEN st.lost[t] + 1 ELSE st.lost[t]]
        tracks_to_finalize == { t \in DOMAIN st.lost :
                                  t \notin present /\ counted[t] >= max_frames_lost }
    IN  FinalizeEach([st EXCEPT !.lost = counted], tracks_to_finalize)

(* _finalize_all_tracks iterating self.active_tracks.keys() without list():  *)
(* the first deletion makes the iteration raise RuntimeError                 *)
FinalizeAllTracksNoCopy(st) ==
    IF DOMAIN st.active = {} THEN st
    ELSE LET track_id == CHOOSE t \in DOMAIN st.active : \A u \in DOMAIN st.active : t <= u
         IN  [FinalizeTrack(st, track_id) EXCEPT !.raised = TRUE]

FinalizeAllTracks(st) == FinalizeEach(st, DOMAIN st.active)

CreateEvent(score, bbox) ==
    [ id |-> event_id_counter + 1, score |-> score, bbox |-> bbox ]

(* lines 156-162 without line 163 (the miss counter is not reset) *)
ObserveTableNoReset(track_id, event) ==
    LET known == track_id \in DOMAIN active_tracks
        uid == IF known THEN active_tracks[track_id] ELSE Len(tracks) + 1
        objs == IF known THEN tracks ELSE Append(tracks, << >>)
    IN  [ active |-> DictSet(active_tracks, track_id, uid),
          tracks |-> [objs EXCEPT ![uid] = add_event(@, event)],
          lost |-> track_frames_lost,
          created |-> ~known ]

(* lines 156-163: create the Track if the identity is unknown, append, reset *)
ObserveTable(track_id, event) ==
    LET known == track_id \in DOMAIN active_tracks
        uid == IF known THEN active_tracks[track_id] ELSE Len(tracks) + 1
        objs == IF known THEN tracks ELSE Append(tracks, << >>)
    IN  [ active |-> DictSet(active_tracks, track_id, uid),
          tracks |-> [objs EXCEPT ![uid] = add_event(@, event)],
          lost |-> DictSet(track_frames_lost, track_id, 0),
          created |-> ~known ]

(* ---- initial state: the service as constructed ---- *)
(* no launcher is running: the service is driven directly *)
RunIdle ==
    /\ launcher = "none"
    /\ main_pc = "exit"
    /\ next_proc = 1
    /\ proc_pc = [i \in Cams |-> "new"]
    /\ proc_running = [i \in Cams |-> FALSE]
    /\ proc_frames = [i \in Cams |-> 0]
    /\ proc_attempts = [i \in Cams |-> 0]
    /\ source_up = [i \in Cams |-> TRUE]

(* no Track is under test on its own *)
EntityIdle ==
    /\ track_events = << >>
    /\ best = [ called |-> FALSE, result |-> None ]
    /\ movement = NotAsked
    /\ quality = NoDetection
    /\ persisted = NothingPersisted
    /\ naming = NothingNamed
    /\ minting = NothingMinted
    /\ submission = NothingSubmitted

(* no CameraProcessor exists *)
CamIdle ==
    /\ lock = FALSE
    /\ attempts = 0
    /\ failed_attempts = 0
    /\ seen_since_tick = {}
    /\ frame_count = 0
    /\ batch_size = 1
    /\ max_reconnect_attempts = 1
    /\ track_ids = {}
    /\ caller = "none"

Init ==
    /\ running = FALSE
    /\ pc = "init"
    /\ max_frames_lost \in 1..MaxThreshold
    /\ findface_adapter \in BOOLEAN
    /\ active_tracks = EmptyDict
    /\ track_frames_lost = EmptyDict
    /\ tracks = << >>
    /\ event_id_counter = 0
    /\ current_frame_tracks = {}
    /\ ndet = 0
    /\ saved = << >>
    /\ sent = << >>
    /\ missed = EmptyDict
    /\ drained = FALSE
    /\ drained_ids = {}
    /\ evicted_now = {}
    /\ interrupted = FALSE
    /\ save_failed = FALSE
    /\ send_failed = FALSE
    /\ RunIdle
    /\ CamIdle
    /\ EntityIdle

TableUnchanged ==
    UNCHANGED << active_tracks, track_frames_lost, tracks, saved, sent, missed,
                 drained_ids, evicted_now >>

(* the frame's iteration is left: its local variables are dead *)
FrameLeft ==
    /\ current_frame_tracks' = {}
    /\ ndet' = 0

(* the configuration of the service stays as constructed; the launchers,    *)
(* the CameraProcessor and the Track under test are not part of a service   *)
(* run                                                                      *)
ConfigUnchanged ==
    /\ UNCHANGED << max_frames_lost, findface_adapter >>
    /\ UNCHANGED << run_vars, cam_vars, entity_vars >>

(* the outcomes of the calls a step makes: a step whose call log after is  *)
(* the log before makes no call, so none can fail                           *)
CanFail(log_after, log_before) ==
    IF log_after = log_before THEN {FALSE} ELSE BOOLEAN

(* the step finalizes no track: no save and no send is attempted in it *)
NoFinalization ==
    /\ save_failed' = FALSE
    /\ send_failed' = FALSE

(* ---- actions ---- *)
Start ==
    /\ pc = "init"
    /\ running' = TRUE
    /\ pc' = "while"
    /\ TableUnchanged /\ ConfigUnchanged
    /\ UNCHANGED << event_id_counter, current_frame_tracks, ndet, drained >>
    /\ NoFinalization /\ UNCHANGED interrupted

Stop ==
    /\ pc \notin {"init", "done", "aborted"}
    /\ running = TRUE
    /\ running' = FALSE
    /\ TableUnchanged /\ ConfigUnchanged
    /\ UNCHANGED << pc, event_id_counter, current_frame_tracks, ndet, drained >>
    /\ NoFinalization /\ UNCHANGED interrupted

(* `while self.running:` found true: model.track(...) is called *)
LoopEnter ==
    /\ pc = "while"
    /\ running
    /\ pc' = "iter"
    /\ TableUnchanged /\ ConfigUnchanged
    /\ UNCHANGED << running, event_id_counter, current_frame_tracks, ndet, drained >>
    /\ NoFinalization /\ UNCHANGED interrupted

(* `while self.running:` found false: fall through to line 183 *)
LoopExit ==
    /\ pc = "while"
    /\ ~running
    /\ pc' = "finalize"
    /\ TableUnchanged /\ ConfigUnchanged
    /\ UNCHANGED << running, event_id_counter, current_frame_tracks, ndet, drained >>
    /\ NoFinalization /\ UNCHANGED interrupted

(* a frame loop without `if not self.running: break` (lines 137-138) *)
SourceYieldIgnoringStop ==
    /\ pc = "iter"
    /\ pc' = "frame"
    /\ current_frame_tracks' = {}
    /\ ndet' = 0
    /\ evicted_now' = {}
    /\ ConfigUnchanged
    /\ UNCHANGED << active_tracks, track_frames_lost, tracks, saved, sent, missed,
                    drained_ids, running, event_id_counter, drained >>
    /\ NoFinalization /\ UNCHANGED interrupted

(* the source yields a frame and the running flag is set *)
SourceYield ==
    /\ pc = "iter"
    /\ running
    /\ pc' = "frame"
    /\ current_frame_tracks' = {}
    /\ ndet' = 0
    /\ evicted_now' = {}
    /\ ConfigUnchanged
    /\ UNCHANGED << active_tracks, track_frames_lost, tracks, saved, sent, missed,
                    drained_ids, running, event_id_counter, drained >>
    /\ NoFinalization /\ UNCHANGED interrupted

(* the source yields a frame and the running flag is clear: break *)
SourceYieldStopped ==
    /\ pc = "iter"
    /\ ~running
    /\ pc' = "while"
    /\ TableUnchanged /\ ConfigUnchanged
    /\ UNCHANGED << running, event_id_counter, current_frame_tracks, ndet, drained >>
    /\ NoFinalization /\ UNCHANGED interrupted

(* the source raises: except Exception, then time.sleep(5) *)
SourceFail ==
    /\ pc = "iter"
    /\ pc' = "sleep"
    /\ TableUnchanged /\ ConfigUnchanged
    /\ UNCHANGED << running, event_id_counter, current_frame_tracks, ndet, drained >>
    /\ NoFinalization /\ UNCHANGED interrupted

(* the frame sequence ends: the for loop finishes, back to the while test *)
SourceEnd ==
    /\ pc = "iter"
    /\ pc' = "while"
    /\ TableUnchanged /\ ConfigUnchanged
    /\ UNCHANGED << running, event_id_counter, current_frame_tracks, ndet, drained >>
    /\ NoFinalization /\ UNCHANGED interrupted

(* KeyboardInterrupt during the source read: except KeyboardInterrupt, break *)
InterruptRead ==
    /\ pc = "iter"
    /\ pc' = "finalize"
    /\ TableUnchanged /\ ConfigUnchanged
    /\ UNCHANGED << running, event_id_counter, current_frame_tracks, ndet, drained >>
    /\ NoFinalization /\ interrupted' = TRUE

(* one box of the frame: lines 147-163 *)
Observe(track_id, score, bbox) ==
    /\ pc = "frame"
    /\ ndet < MaxDet
    /\ event_id_counter < MaxEvents
    /\ LET event == CreateEvent(score, bbox)
           t == ObserveTable(track_id, event)
       IN  /\ active_tracks' = t.active
           /\ tracks' = t.tracks
           /\ track_frames_lost' = t.lost
           /\ saved' = IF t.created THEN Append(saved, << >>) ELSE saved
           /\ sent' = IF t.created THEN Append(sent, << >>) ELSE sent
    /\ event_id_counter' = event_id_counter + 1
    /\ current_frame_tracks' = current_frame_tracks \cup {track_id}
    /\ missed' = DictSet(missed, track_id, 0)
    /\ ndet' = ndet + 1
    /\ ConfigUnchanged
    /\ UNCHANGED << running, pc, drained, drained_ids, evicted_now >>
    /\ NoFinalization /\ UNCHANGED interrupted

(* building the Event raises and no `except Exception` catches it: the     *)
(* exception leaves _process_stream                                        *)
DetectionFailsUncaught(track_id) ==
    /\ pc = "frame"
    /\ ndet < MaxDet
    /\ event_id_counter < MaxEvents
    /\ event_id_counter' = event_id_counter + 1
    /\ pc' = "aborted"
    /\ FrameLeft
    /\ TableUnchanged /\ ConfigUnchanged
    /\ UNCHANGED << running, drained >>
    /\ NoFinalization /\ UNCHANGED interrupted

(* the Track is created before the Event is built, and building it raises *)
DetectionFailsAfterCreate(track_id) ==
    /\ pc = "frame"
    /\ ndet < MaxDet
    /\ event_id_counter < MaxEvents
    /\ track_id \notin DOMAIN active_tracks
    /\ active_tracks' = DictSet(active_tracks, track_id, Len(tracks) + 1)
    /\ tracks' = Append(tracks, << >>)
    /\ saved' = Append(saved, << >>)
    /\ sent' = Append(sent, << >>)
    /\ missed' = DictSet(missed, track_id, 0)
    /\ event_id_counter' = event_id_counter + 1
    /\ pc' = "sleep"
    /\ FrameLeft
    /\ ConfigUnchanged
    /\ UNCHANGED << running, drained, track_frames_lost, drained_ids, evicted_now >>
    /\ NoFinalization /\ UNCHANGED interrupted

(* _create_event_from_detection raises for one box: except Exception, sleep *)
DetectionFails(track_id) ==
    /\ pc = "frame"
    /\ ndet < MaxDet
    /\ event_id_counter < MaxEvents
    /\ event_id_counter' = event_id_counter + 1
    /\ pc' = "sleep"
    /\ FrameLeft
    /\ TableUnchanged /\ ConfigUnchanged
    /\ UNCHANGED << running, drained >>
    /\ NoFinalization /\ UNCHANGED interrupted

(* KeyboardInterrupt while a frame is processed: except KeyboardInterrupt, break *)
InterruptFrame ==
    /\ pc = "frame"
    /\ pc' = "finalize"
    /\ FrameLeft
    /\ TableUnchanged /\ ConfigUnchanged
    /\ UNCHANGED << running, event_id_counter, drained >>
    /\ NoFinalization /\ interrupted' = TRUE

(* a frame loop that calls _update_lost_tracks inside the `if result.boxes  *)
(* ... id is not None` block: a frame without identities leaves the table  *)
(* as it is                                                                 *)
TickOutcomesInsideIf ==
    IF current_frame_tracks = {}
    THEN { TableState }
    ELSE UNION { { st \in { UpdateLostTracks(TableStateFailing(f[1], f[2]),
                                             current_frame_tracks) } :
                      st.save_failed = f[1] /\ st.send_failed = f[2] }
                 : f \in UNION { CanFail(calls.saved, saved) \X CanFail(calls.sent, sent)
                                 : calls \in { UpdateLostTracks(TableState,
                                                                current_frame_tracks) } } }

(* what _update_lost_tracks can leave behind at the end of this frame: one  *)
(* table per way the saves and the sends it makes can fail                  *)
TickOutcomes ==
    UNION { { st \in { UpdateLostTracks(TableStateFailing(f[1], f[2]),
                                        current_frame_tracks) } :
                 st.save_failed = f[1] /\ st.send_failed = f[2] }
            : f \in UNION { CanFail(calls.saved, saved) \X CanFail(calls.sent, sent)
                            : calls \in { UpdateLostTracks(TableState,
                                                           current_frame_tracks) } } }

(* the frame ends with the table st; the for loop asks for the next frame *)
TickTo(st) ==
    /\ save_failed' = st.save_failed
    /\ send_failed' = st.send_failed
    /\ active_tracks' = st.active
    /\ track_frames_lost' = st.lost
    /\ saved' = st.saved
    /\ sent' = st.sent
    /\ pc' = IF st.raised THEN "sleep" ELSE "iter"
    /\ missed' = [t \in DOMAIN st.active |->
                     IF t \in current_frame_tracks THEN missed[t] ELSE missed[t] + 1]
    /\ evicted_now' = { t \in DOMAIN active_tracks :
                          st.saved[active_tracks[t]] # saved[active_tracks[t]] }
    /\ FrameLeft
    /\ ConfigUnchanged
    /\ UNCHANGED << running, tracks, event_id_counter, drained, drained_ids,
                    interrupted >>

(* line 173: self._update_lost_tracks(current_frame_tracks), end of the frame *)
Tick ==
    /\ pc = "frame"
    /\ \E st \in TickOutcomes : TickTo(st)

(* a supervisor that gives up after the backoff sleep instead of looping *)
SleepDoneGiveUp ==
    /\ pc = "sleep"
    /\ pc' = "finalize"
    /\ TableUnchanged /\ ConfigUnchanged
    /\ UNCHANGED << running, event_id_counter, current_frame_tracks, ndet, drained >>
    /\ NoFinalization /\ UNCHANGED interrupted

(* time.sleep(5) returns: back to the while test *)
SleepDone ==
    /\ pc = "sleep"
    /\ pc' = "while"
    /\ TableUnchanged /\ ConfigUnchanged
    /\ UNCHANGED << running, event_id_counter, current_frame_tracks, ndet, drained >>
    /\ NoFinalization /\ UNCHANGED interrupted

(* KeyboardInterrupt during time.sleep(5): the sleep is inside the         *)
(* `except Exception` handler, so `except KeyboardInterrupt` of the same   *)
(* try statement does not catch it and it leaves _process_stream           *)
InterruptSleep ==
    /\ pc = "sleep"
    /\ pc' = "aborted"
    /\ TableUnchanged /\ ConfigUnchanged
    /\ UNCHANGED << running, event_id_counter, current_frame_tracks, ndet, drained >>
    /\ NoFinalization /\ interrupted' = TRUE

(* what _finalize_all_tracks can leave behind: one table per way the saves  *)
(* and the sends it makes can fail                                          *)
FinalizeAllOutcomes ==
    UNION { { st \in { FinalizeAllTracks(TableStateFailing(f[1], f[2])) } :
                 st.save_failed = f[1] /\ st.send_failed = f[2] }
            : f \in UNION { CanFail(calls.saved, saved) \X CanFail(calls.sent, sent)
                            : calls \in { FinalizeAllTracks(TableState) } } }

(* the drain leaves the table st and _process_stream returns *)
FinalizeAllTo(st) ==
    /\ save_failed' = st.save_failed
    /\ send_failed' = st.send_failed
    /\ active_tracks' = st.active
    /\ track_frames_lost' = st.lost
    /\ saved' = st.saved
    /\ sent' = st.sent
    /\ pc' = IF st.raised THEN "aborted" ELSE "done"
    /\ drained' = ~st.raised
    /\ missed' = [t \in DOMAIN st.active |-> missed[t]]
    /\ drained_ids' = DOMAIN active_tracks
    /\ ConfigUnchanged
    /\ UNCHANGED << running, tracks, event_id_counter, current_frame_tracks, ndet,
                    evicted_now, interrupted >>

(* line 183: self._finalize_all_tracks(), then _process_stream returns *)
FinalizeAll ==
    /\ pc = "finalize"
    /\ \E st \in FinalizeAllOutcomes : FinalizeAllTo(st)

Next ==
    \/ Start
    \/ Stop
    \/ LoopEnter
    \/ LoopExit
    \/ SourceYield
    \/ SourceYieldStopped
    \/ SourceFail
    \/ SourceEnd
    \/ InterruptRead
    \/ \E track_id \in Ids, det \in Detections : Observe(track_id, det.score, det.bbox)
    \/ \E track_id \in Ids : DetectionFails(track_id)
    \/ InterruptFrame
    \/ Tick
    \/ SleepDone
    \/ InterruptSleep
    \/ FinalizeAll

Spec == Init /\ [][Next]_vars

(***************************************************************************)
(* The two launchers: main() of src/run.py, which calls proc.start() of   *)
(* one ByteTrackDetectorService after the other in the main thread, and   *)
(* main() of src/detectorrbt.py, which starts one daemon thread per       *)
(* ByteTrackDetector and then sleeps.  Of a supervisor only the loop of   *)
(* _process_stream is kept: the loop test, the source read, the backoff   *)
(* sleep, the return.  source_up tells for each camera whether its source *)
(* delivers frames or fails at every read.                                *)
(***************************************************************************)
ServiceIdle ==
    /\ running = FALSE
    /\ pc = "init"
    /\ max_frames_lost = 1
    /\ findface_adapter = FALSE
    /\ active_tracks = EmptyDict
    /\ track_frames_lost = EmptyDict
    /\ tracks = << >>
    /\ event_id_counter = 0
    /\ current_frame_tracks = {}
    /\ ndet = 0
    /\ saved = << >>
    /\ sent = << >>
    /\ missed = EmptyDict
    /\ drained = FALSE
    /\ drained_ids = {}
    /\ evicted_now = {}
    /\ interrupted = FALSE
    /\ save_failed = FALSE
    /\ send_failed = FALSE

RunInit ==
    /\ launcher \in {"run", "detectorrbt"}
    /\ main_pc = "start"
    /\ next_proc = 1
    /\ proc_pc = [i \in Cams |-> "new"]
    /\ proc_running = [i \in Cams |-> FALSE]
    /\ proc_frames = [i \in Cams |-> 0]
    /\ proc_attempts = [i \in Cams |-> 0]
    /\ source_up \in [Cams -> BOOLEAN]
    /\ ServiceIdle
    /\ CamIdle
    /\ EntityIdle

RunOthersUnchanged ==
    UNCHANGED << service_vars, cam_vars, entity_vars, launcher, source_up >>

Min(a, b) == IF a < b THEN a ELSE b

Max(a, b) == IF a > b THEN a ELSE b

(* run.py lines 105-107: `for proc in processors: proc.start()`; start()   *)
(* sets running and executes _process_stream in the calling thread, so the *)
(* loop goes on only when the previous start() has returned                *)
RunStartNext ==
    /\ launcher = "run"
    /\ main_pc = "start"
    /\ next_proc \in Cams
    /\ \A i \in Cams : i < next_proc => proc_pc[i] = "returned"
    /\ proc_running' = [proc_running EXCEPT ![next_proc] = TRUE]
    /\ proc_pc' = [proc_pc EXCEPT ![next_proc] = "while"]
    /\ next_proc' = next_proc + 1
    /\ RunOthersUnchanged
    /\ UNCHANGED << main_pc, proc_frames, proc_attempts >>

(* run.py: the for loop is over, main returns *)
RunLoopDone ==
    /\ launcher = "run"
    /\ main_pc = "start"
    /\ next_proc \notin Cams
    /\ \A i \in Cams : proc_pc[i] = "returned"
    /\ main_pc' = "exit"
    /\ RunOthersUnchanged
    /\ UNCHANGED << next_proc, proc_pc, proc_running, proc_frames, proc_attempts >>

(* detectorrbt.py lines 117-119: a daemon thread with target p.start is    *)
(* created and started for the next camera                                 *)
DetLaunchNext ==
    /\ launcher = "detectorrbt"
    /\ main_pc = "start"
    /\ next_proc \in Cams
    /\ proc_pc' = [proc_pc EXCEPT ![next_proc] = "launched"]
    /\ next_proc' = next_proc + 1
    /\ RunOthersUnchanged
    /\ UNCHANGED << main_pc, proc_running, proc_frames, proc_attempts >>

(* detectorrbt.py lines 121-124: main enters `while True: time.sleep(1)` *)
DetWait ==
    /\ launcher = "detectorrbt"
    /\ main_pc = "start"
    /\ next_proc \notin Cams
    /\ main_pc' = "wait"
    /\ RunOthersUnchanged
    /\ UNCHANGED << next_proc, proc_pc, proc_running, proc_frames, proc_attempts >>

(* the thread of camera i executes ByteTrackDetector.start: running = True *)
ThreadStart(i) ==
    /\ proc_pc[i] = "launched"
    /\ proc_running' = [proc_running EXCEPT ![i] = TRUE]
    /\ proc_pc' = [proc_pc EXCEPT ![i] = "while"]
    /\ RunOthersUnchanged
    /\ UNCHANGED << main_pc, next_proc, proc_frames, proc_attempts >>

(* `while self.running:` of camera i found true: model.track(...) is called *)
ProcLoopEnter(i) ==
    /\ proc_pc[i] = "while"
    /\ proc_running[i]
    /\ proc_pc' = [proc_pc EXCEPT ![i] = "iter"]
    /\ proc_attempts' = [proc_attempts EXCEPT ![i] = Min(@ + 1, MaxAttempts)]
    /\ RunOthersUnchanged
    /\ UNCHANGED << main_pc, next_proc, proc_running, proc_frames >>

(* `while self.running:` found false: the drain, then start() returns *)
ProcLoopExit(i) ==
    /\ proc_pc[i] = "while"
    /\ ~proc_running[i]
    /\ proc_pc' = [proc_pc EXCEPT ![i] = "returned"]
    /\ RunOthersUnchanged
    /\ UNCHANGED << main_pc, next_proc, proc_running, proc_frames, proc_attempts >>

(* the source of camera i delivers a frame, which is processed *)
ProcFrame(i) ==
    /\ proc_pc[i] = "iter"
    /\ source_up[i]
    /\ proc_running[i]
    /\ proc_frames[i] < MaxFrames
    /\ proc_frames' = [proc_frames EXCEPT ![i] = @ + 1]
    /\ RunOthersUnchanged
    /\ UNCHANGED << main_pc, next_proc, proc_pc, proc_running, proc_attempts >>

(* a frame arrives and the running flag is clear: break *)
ProcFrameStopped(i) ==
    /\ proc_pc[i] = "iter"
    /\ source_up[i]
    /\ ~proc_running[i]
    /\ proc_pc' = [proc_pc EXCEPT ![i] = "while"]
    /\ RunOthersUnchanged
    /\ UNCHANGED << main_pc, next_proc, proc_running, proc_frames, proc_attempts >>

(* the source of camera i raises: except Exception, time.sleep(5) *)
ProcFail(i) ==
    /\ proc_pc[i] = "iter"
    /\ ~source_up[i]
    /\ proc_pc' = [proc_pc EXCEPT ![i] = "sleep"]
    /\ RunOthersUnchanged
    /\ UNCHANGED << main_pc, next_proc, proc_running, proc_frames, proc_attempts >>

(* time.sleep(5) of camera i returns *)
ProcSleepDone(i) ==
    /\ proc_pc[i] = "sleep"
    /\ proc_pc' = [proc_pc EXCEPT ![i] = "while"]
    /\ RunOthersUnchanged
    /\ UNCHANGED << main_pc, next_proc, proc_running, proc_frames, proc_attempts >>

(* run.py: KeyboardInterrupt in the main thread while it waits for a frame *)
(* of camera i: `except KeyboardInterrupt: break` of _process_stream, the  *)
(* drain, and start() returns normally into the for loop of main           *)
RunInterruptRead(i) ==
    /\ launcher = "run"
    /\ main_pc = "start"
    /\ proc_pc[i] = "iter"
    /\ proc_pc' = [proc_pc EXCEPT ![i] = "returned"]
    /\ RunOthersUnchanged
    /\ UNCHANGED << main_pc, next_proc, proc_running, proc_frames, proc_attempts >>

(* run.py: KeyboardInterrupt in the main thread during time.sleep(5) of    *)
(* camera i: it leaves _process_stream and start() and reaches             *)
(* `except KeyboardInterrupt` of main (line 108)                           *)
RunInterruptSleep(i) ==
    /\ launcher = "run"
    /\ main_pc = "start"
    /\ proc_pc[i] = "sleep"
    /\ proc_pc' = [proc_pc EXCEPT ![i] = "returned"]
    /\ main_pc' = "except"
    /\ RunOthersUnchanged
    /\ UNCHANGED << next_proc, proc_running, proc_frames, proc_attempts >>

(* detectorrbt.py: KeyboardInterrupt during time.sleep(1) of main *)
DetInterrupt ==
    /\ launcher = "detectorrbt"
    /\ main_pc = "wait"
    /\ main_pc' = "except"
    /\ RunOthersUnchanged
    /\ UNCHANGED << next_proc, proc_pc, proc_running, proc_frames, proc_attempts >>

(* the handler of main: stop() of every processor, then main returns *)
StopAll ==
    /\ main_pc = "except"
    /\ proc_running' = [i \in Cams |-> FALSE]
    /\ main_pc' = "exit"
    /\ RunOthersUnchanged
    /\ UNCHANGED << next_proc, proc_pc, proc_frames, proc_attempts >>

ProcStep(i) ==
    \/ ThreadStart(i)
    \/ ProcLoopEnter(i)
    \/ ProcLoopExit(i)
    \/ ProcFrame(i)
    \/ ProcFrameStopped(i)
    \/ ProcFail(i)
    \/ ProcSleepDone(i)

MainStep ==
    \/ RunStartNext
    \/ RunLoopDone
    \/ DetLaunchNext
    \/ DetWait
    \/ StopAll

RunNext ==
    \/ MainStep
    \/ \E i \in Cams : ProcStep(i)
    \/ \E i \in Cams : RunInterruptRead(i)
    \/ \E i \in Cams : RunInterruptSleep(i)
    \/ DetInterrupt

RunSpec == RunInit /\ [][RunNext]_vars

(* every thread that can take a step takes one: the main thread and the    *)
(* thread executing each camera's supervisor; interrupts are not forced    *)
RunFairSpec ==
    /\ RunSpec
    /\ WF_vars(MainStep)
    /\ \A i \in Cams : WF_vars(ProcStep(i))

(***************************************************************************)
(* CameraProcessor (src/camera_processor.py): the supervisor that runs in *)
(* its own thread, counts reconnection attempts, ticks once per batch and *)
(* guards its two maps with self.lock, a threading.Lock (not reentrant).  *)
(* Its fields of the same name are kept in the variables of the service:  *)
(* running, max_frames_lost, active_tracks, track_frames_lost, and its    *)
(* locals in pc, current_frame_tracks, ndet; tracks holds the lists of    *)
(* active_tracks, saved the _save_best_frame calls.  KeyboardInterrupt is *)
(* raised in the main thread only, so the thread of _process_stream never *)
(* sees it.                                                               *)
(***************************************************************************)
CamServiceIdle ==
    /\ findface_adapter = FALSE
    /\ sent = << >>
    /\ missed = EmptyDict
    /\ drained = FALSE
    /\ drained_ids = {}
    /\ evicted_now = {}
    /\ interrupted = FALSE
    /\ save_failed = FALSE
    /\ send_failed = FALSE

CamInit ==
    /\ running = FALSE
    /\ pc = "init"
    /\ max_frames_lost \in 1..MaxThreshold
    /\ batch_size \in 1..MaxBatch
    /\ max_reconnect_attempts \in 1..MaxAttempts
    /\ active_tracks = EmptyDict
    /\ track_frames_lost = EmptyDict
    /\ tracks = << >>
    /\ event_id_counter = 0
    /\ current_frame_tracks = {}
    /\ ndet = 0
    /\ saved = << >>
    /\ lock = FALSE
    /\ attempts = 0
    /\ failed_attempts = 0
    /\ seen_since_tick = {}
    /\ frame_count = 0
    /\ track_ids = {}
    /\ caller = "none"
    /\ CamServiceIdle
    /\ RunIdle
    /\ EntityIdle

CamConfigUnchanged ==
    UNCHANGED << max_frames_lost, batch_size, max_reconnect_attempts,
                 findface_adapter, sent, missed, drained, drained_ids, evicted_now,
                 interrupted, save_failed, send_failed, run_vars, entity_vars >>

CamOthersUnchanged ==
    /\ CamConfigUnchanged
    /\ UNCHANGED << failed_attempts, seen_since_tick >>

CamTableUnchanged ==
    UNCHANGED << active_tracks, track_frames_lost, tracks, event_id_counter, saved >>

(* start(): running = True and the thread of _process_stream is started; *)
(* line 69: attempts = 0                                                  *)
CamStart ==
    /\ pc = "init"
    /\ running' = TRUE
    /\ attempts' = 0
    /\ pc' = "while"
    /\ CamTableUnchanged /\ CamOthersUnchanged
    /\ UNCHANGED << current_frame_tracks, ndet, lock, frame_count,
                    track_ids, caller >>

(* stop(), called from the main thread: running = False *)
CamStop ==
    /\ pc \notin {"init", "done"}
    /\ running
    /\ running' = FALSE
    /\ CamTableUnchanged /\ CamOthersUnchanged
    /\ UNCHANGED << pc, current_frame_tracks, ndet, lock, attempts, frame_count,
                    track_ids, caller >>

(* line 71 found true; lines 76-92: the stream is opened, attempts = 0,   *)
(* current_frame_tracks = set(), frame_count = 0                           *)
CamConnect ==
    /\ pc = "while"
    /\ attempts < max_reconnect_attempts /\ running
    /\ attempts' = 0
    /\ current_frame_tracks' = {}
    /\ frame_count' = 0
    /\ seen_since_tick' = {}
    /\ pc' = "read"
    /\ CamTableUnchanged /\ CamConfigUnchanged
    /\ UNCHANGED failed_attempts
    /\ UNCHANGED << running, ndet, lock, track_ids, caller >>

(* line 71 found false: line 174 *)
CamLoopExit ==
    /\ pc = "while"
    /\ ~(attempts < max_reconnect_attempts /\ running)
    /\ pc' = "final"
    /\ CamTableUnchanged /\ CamOthersUnchanged
    /\ UNCHANGED << running, current_frame_tracks, ndet, lock, attempts, frame_count,
                    track_ids, caller >>

(* lines 94-103: the next result arrives while running; frame_count += 1  *)
(* and the set is cleared on the first frame of a batch                    *)
CamRead ==
    /\ pc = "read"
    /\ running
    /\ frame_count < MaxFrameCount
    /\ frame_count' = frame_count + 1
    /\ current_frame_tracks' = IF (frame_count + 1) % batch_size = 1
                               THEN {} ELSE current_frame_tracks
    /\ ndet' = 0
    /\ pc' = "boxes"
    /\ failed_attempts' = 0
    /\ CamTableUnchanged /\ CamConfigUnchanged
    /\ UNCHANGED seen_since_tick
    /\ UNCHANGED << running, lock, attempts, track_ids, caller >>

(* lines 95-96 and 156-157: a result arrives and running is false: break, *)
(* then the code after the for loop                                        *)
CamReadStopped ==
    /\ pc = "read"
    /\ ~running
    /\ pc' = "drain"
    /\ CamTableUnchanged /\ CamOthersUnchanged
    /\ UNCHANGED << running, current_frame_tracks, ndet, lock, attempts, frame_count,
                    track_ids, caller >>

(* the results end: the code after the for loop, lines 156-157 *)
CamReadEnd ==
    /\ pc = "read"
    /\ pc' = "drain"
    /\ CamTableUnchanged /\ CamOthersUnchanged
    /\ UNCHANGED << running, current_frame_tracks, ndet, lock, attempts, frame_count,
                    track_ids, caller >>

(* lines 163-172: the stream raises; attempts += 1, then the sleep or, at *)
(* max_reconnect_attempts, break                                           *)
CamReadFail ==
    /\ pc = "read"
    /\ attempts' = attempts + 1
    /\ pc' = IF attempts + 1 < max_reconnect_attempts THEN "sleep" ELSE "final"
    /\ failed_attempts' = Min(failed_attempts + 1, max_reconnect_attempts)
    /\ CamTableUnchanged /\ CamConfigUnchanged
    /\ UNCHANGED seen_since_tick
    /\ UNCHANGED << running, current_frame_tracks, ndet, lock, frame_count,
                    track_ids, caller >>

(* time.sleep(self.reconnect_interval) returns *)
CamSleepDone ==
    /\ pc = "sleep"
    /\ pc' = "while"
    /\ CamTableUnchanged /\ CamOthersUnchanged
    /\ UNCHANGED << running, current_frame_tracks, ndet, lock, attempts, frame_count,
                    track_ids, caller >>

(* lines 109-149: one box; under `with self.lock` the tuple is appended   *)
(* to active_tracks[track_id] (a defaultdict) and the counter is zeroed    *)
CamObserve(track_id, score, bbox) ==
    /\ pc = "boxes"
    /\ ndet < MaxDet
    /\ event_id_counter < MaxEvents
    /\ ~lock
    /\ LET event == CreateEvent(score, bbox)
           t == ObserveTable(track_id, event)
       IN  /\ active_tracks' = t.active
           /\ tracks' = t.tracks
           /\ track_frames_lost' = t.lost
           /\ saved' = IF t.created THEN Append(saved, << >>) ELSE saved
    /\ event_id_counter' = event_id_counter + 1
    /\ current_frame_tracks' = current_frame_tracks \cup {track_id}
    /\ ndet' = ndet + 1
    /\ seen_since_tick' = seen_since_tick \cup {track_id}
    /\ CamConfigUnchanged
    /\ UNCHANGED << running, pc, lock, attempts, failed_attempts, frame_count,
                    track_ids, caller >>

(* lines 105-106: the frame has no boxes: continue *)
CamFrameEmpty ==
    /\ pc = "boxes"
    /\ ndet = 0
    /\ pc' = "read"
    /\ CamTableUnchanged /\ CamOthersUnchanged
    /\ UNCHANGED << running, current_frame_tracks, ndet, lock, attempts, frame_count,
                    track_ids, caller >>

(* lines 152-153: the boxes are done; on the last frame of a batch         *)
(* _update_lost_tracks is called                                           *)
CamFrameEnd ==
    /\ pc = "boxes"
    /\ ndet > 0
    /\ pc' = IF frame_count % batch_size = 0 THEN "tick" ELSE "read"
    /\ CamTableUnchanged /\ CamOthersUnchanged
    /\ UNCHANGED << running, current_frame_tracks, ndet, lock, attempts, frame_count,
                    track_ids, caller >>

(* _update_lost_tracks, lines 178-186: the lock is taken, the counters of *)
(* the absent identities are advanced and the due ones collected; with     *)
(* none due the with block ends and the lock is released, otherwise        *)
(* _finalize_track is called with the lock held (lines 189-190)            *)
CamUpdateLostTracks ==
    /\ pc = "tick"
    /\ ~lock
    /\ LET counted == [t \in DOMAIN track_frames_lost |->
                          IF t \notin current_frame_tracks
                          THEN track_frames_lost[t] + 1 ELSE track_frames_lost[t]]
           due == { t \in DOMAIN track_frames_lost :
                      t \notin current_frame_tracks /\ counted[t] >= max_frames_lost }
       IN  /\ track_frames_lost' = counted
           /\ track_ids' = due
           /\ lock' = (due # {})
           /\ pc' = IF due = {} THEN "read" ELSE "finalize_track"
           /\ caller' = IF due = {} THEN caller ELSE "tick"
    /\ seen_since_tick' = {}
    /\ CamConfigUnchanged
    /\ UNCHANGED failed_attempts
    /\ UNCHANGED << running, active_tracks, tracks, event_id_counter, saved,
                    current_frame_tracks, ndet, attempts, frame_count >>

(* _finalize_all_tracks, lines 242-246: the keys are listed under the     *)
(* lock, the lock is released, then _finalize_track is called for each     *)
CamFinalizeAllTracks ==
    /\ pc \in {"drain", "final"}
    /\ ~lock
    /\ track_ids' = DOMAIN active_tracks
    /\ caller' = pc
    /\ pc' = IF DOMAIN active_tracks = {}
             THEN (IF pc = "drain" THEN "final" ELSE "done")
             ELSE "finalize_track"
    /\ CamTableUnchanged /\ CamOthersUnchanged
    /\ UNCHANGED << running, current_frame_tracks, ndet, lock, attempts, frame_count >>

(* _finalize_track, lines 194-211, for the next identity of the calling    *)
(* loop: `with self.lock` waits until the lock is free; the best tuple is  *)
(* saved and the identity deleted from both maps; after the last identity  *)
(* the calling loop ends (and the with block of _update_lost_tracks would  *)
(* release its lock)                                                       *)
CamFinalizeTrack ==
    /\ pc = "finalize_track"
    /\ ~lock
    /\ LET track_id == CHOOSE t \in track_ids :
                          \A u \in track_ids : t <= u
           uid == active_tracks[track_id]
           rest == track_ids \ {track_id}
       IN  /\ saved' = [saved EXCEPT ![uid] =
                           Append(@, [ track_id |-> track_id,
                                       event |-> get_best_event(tracks[uid]) ])]
           /\ active_tracks' = DictDel(active_tracks, track_id)
           /\ track_frames_lost' = DictDel(track_frames_lost, track_id)
           /\ track_ids' = rest
           /\ pc' = IF rest # {} THEN "finalize_track"
                    ELSE IF caller = "tick" THEN "read"
                    ELSE IF caller = "drain" THEN "final"
                    ELSE "done"
    /\ CamOthersUnchanged
    /\ UNCHANGED << running, tracks, event_id_counter, current_frame_tracks, ndet,
                    lock, attempts, frame_count, caller >>

CamNext ==
    \/ CamStart
    \/ CamStop
    \/ CamConnect
    \/ CamLoopExit
    \/ CamRead
    \/ CamReadStopped
    \/ CamReadEnd
    \/ CamReadFail
    \/ CamSleepDone
    \/ \E track_id \in Ids, det \in Detections : CamObserve(track_id, det.score, det.bbox)
    \/ CamFrameEmpty
    \/ CamFrameEnd
    \/ CamUpdateLostTracks
    \/ CamFinalizeAllTracks
    \/ CamFinalizeTrack

CamSpec == CamInit /\ [][CamNext]_vars

(***************************************************************************)
(* The Track entity on its own (src/src/domain/entities/track_entity.py): *)
(* one Track that receives any events, in any order, and is asked for its *)
(* best event.  TrackProcessor.process (src/track_processor.py line 68)   *)
(* picks its best detection with the same max(..., key=score).            *)
(***************************************************************************)
TrackScores == 1..MaxScore

(* the boxes of Detections and a third whose centre is exactly 50 px from   *)
(* the centre of the first (30 px across, 40 px down)                      *)
TrackBoxes == { d.bbox : d \in Detections } \cup { <<30, 40, 40, 53>> }

(* min_threshold_pixels of a has_movement call: nothing, the default, the   *)
(* distance between the boxes of Detections, one more                      *)
TrackThresholds == { 0, 50, 80, 81 }

(* min_frame_percentage of a has_movement call as <<numerator, denominator>> *)
TrackPercentages == { <<0, 1>>, <<3, 10>>, <<1, 2>>, <<1, 1>> }

TrackIdleService ==
    /\ ServiceIdle
    /\ RunIdle
    /\ CamIdle

TrackInit ==
    /\ track_events = << >>
    /\ best = [ called |-> FALSE, result |-> None ]
    /\ movement = NotAsked
    /\ quality = NoDetection
    /\ persisted = NothingPersisted
    /\ naming = NothingNamed
    /\ minting = NothingMinted
    /\ submission = NothingSubmitted
    /\ TrackIdleService

(* track.add_event(event) with a new Event of any score and box *)
TrackAddEvent(score, bbox) ==
    /\ Len(track_events) < MaxLen
    /\ track_events' = add_event(track_events,
                                 [ id |-> Len(track_events) + 1,
                                   score |-> score, bbox |-> bbox ])
    /\ best' = [ called |-> FALSE, result |-> None ]
    /\ movement' = NotAsked
    /\ UNCHANGED << service_vars, run_vars, cam_vars, quality, persisted, naming,
                    minting, submission >>

(* best = track.get_best_event() *)
TrackGetBestEvent ==
    /\ ~best.called
    /\ best' = [ called |-> TRUE, result |-> get_best_event(track_events) ]
    /\ movement' = NotAsked
    /\ UNCHANGED track_events
    /\ UNCHANGED << service_vars, run_vars, cam_vars, quality, persisted, naming,
                    minting, submission >>

(* moved = track.has_movement(min_threshold_pixels, min_frame_percentage) *)
TrackHasMovement(min_threshold_pixels, min_frame_percentage) ==
    /\ ~movement.called
    /\ movement' = [ called |-> TRUE,
                     threshold |-> min_threshold_pixels,
                     pct |-> min_frame_percentage,
                     result |-> has_movement(track_events, min_threshold_pixels,
                                             min_frame_percentage[1],
                                             min_frame_percentage[2]) ]
    /\ best' = [ called |-> FALSE, result |-> None ]
    /\ UNCHANGED track_events
    /\ UNCHANGED << service_vars, run_vars, cam_vars, quality, persisted, naming,
                    minting, submission >>

TrackNext ==
    \/ \E score \in TrackScores, bbox \in TrackBoxes : TrackAddEvent(score, bbox)
    \/ TrackGetBestEvent
    \/ \E min_threshold_pixels \in TrackThresholds, min_frame_percentage \in TrackPercentages :
           TrackHasMovement(min_threshold_pixels, min_frame_percentage)

TrackSpec == TrackInit /\ [][TrackNext]_vars

(***************************************************************************)
(* The quality scorers on their own:                                       *)
(* FaceQualityService.calculate_quality                                    *)
(* (src/src/domain/services/face_quality_service.py), which scores the     *)
(* Events of the service, and get_face_quality_score                       *)
(* (src/face_quality_score.py), which scores the detections of             *)
(* CameraProcessor.  A score is the fraction <<numerator, denominator>>    *)
(* in lowest terms; a denominator of 0 stands for the ZeroDivisionError    *)
(* that a division by zero raises.                                         *)
(***************************************************************************)
Abs(x) == IF x < 0 THEN -x ELSE x

RECURSIVE GCD(_, _)
GCD(a, b) == IF b = 0 THEN a ELSE GCD(b, a % b)

Raised == <<0, 0>>

(* n / d *)
Rat(n, d) ==
    IF d = 0 THEN Raised
    ELSE LET g == GCD(Abs(n), d) IN << n \div g, d \div g >>

Zero == <<0, 1>>

One == <<1, 1>>

RAdd(a, b) == Rat(a[1] * b[2] + b[1] * a[2], a[2] * b[2])

(* a * k and a / k for an integer k *)
RMul(a, k) == Rat(a[1] * k, a[2])

RDiv(a, k) == Rat(a[1], a[2] * k)

RLeq(a, b) == a[1] * b[2] <= b[1] * a[2]

RMin(a, b) == IF RLeq(a, b) THEN a ELSE b

RMax(a, b) == IF RLeq(a, b) THEN b ELSE a

(* the frame of the detection: frame.width, frame.height *)
FrameWidth == 10

FrameHeight == 13

(* BboxVO.width, BboxVO.height, BboxVO.area of the box (x1, y1, x2, y2) *)
BboxWidth(bbox) == bbox[3] - bbox[1]

BboxHeight(bbox) == bbox[4] - bbox[2]

BboxArea(bbox) == BboxWidth(bbox) * BboxHeight(bbox)

(* the number of pixels of frame_ndarray[y1:y2, x1:x2]: numpy cuts a slice *)
(* to the array and yields an empty one when nothing is left              *)
CropSize(bbox) ==
    LET Clip(v, limit) == IF v > limit THEN limit ELSE v
        cols == Clip(bbox[3], FrameWidth) - Clip(bbox[1], FrameWidth)
        rows == Clip(bbox[4], FrameHeight) - Clip(bbox[2], FrameHeight)
    IN  IF cols <= 0 \/ rows <= 0 THEN 0 ELSE cols * rows

(* lines 19-27 *)
_calculate_confidence_score(confidence) == confidence

(* lines 29-41: min(area / (frame_area * 0.3), 1.0) *)
_calculate_size_score(bbox) ==
    RMin(Rat(10 * BboxArea(bbox), 3 * FrameHeight * FrameWidth), One)

(* _calculate_frontal_score that lets the score fall below zero when the   *)
(* nose lies outside the eyes                                              *)
_calculate_frontal_score_unclamped(landmarks) ==
    IF landmarks = << >> \/ Len(landmarks) < 5 THEN One
    ELSE LET left_eye == landmarks[1]
             right_eye == landmarks[2]
             nose == landmarks[3]
             eye_distance == Abs(right_eye[1] - left_eye[1])
             nose_offset2 == Abs(2 * nose[1] - left_eye[1] - right_eye[1])
         IN  IF eye_distance > 0
             THEN Rat(2 * eye_distance - nose_offset2, 2 * eye_distance)
             ELSE One

(* lines 43-72; nose_offset2 is twice nose_offset, so that                 *)
(* 1 - nose_offset / eye_distance = (2 eye_distance - nose_offset2) /      *)
(* (2 eye_distance)                                                        *)
_calculate_frontal_score(landmarks) ==
    IF landmarks = << >> \/ Len(landmarks) < 5 THEN One
    ELSE LET left_eye == landmarks[1]
             right_eye == landmarks[2]
             nose == landmarks[3]
             eye_distance == Abs(right_eye[1] - left_eye[1])
             nose_offset2 == Abs(2 * nose[1] - left_eye[1] - right_eye[1])
         IN  IF eye_distance > 0
             THEN RMax(Zero, Rat(2 * eye_distance - nose_offset2, 2 * eye_distance))
             ELSE One

(* _calculate_proportion_score without the `if width == 0` test of line 86 *)
_calculate_proportion_score_unguarded(bbox) ==
    LET width == BboxWidth(bbox)
        height == BboxHeight(bbox)
    IN  IF Rat(height, width) = Raised THEN Raised
        ELSE RMax(Zero, Rat(10 * width - Abs(10 * height - 13 * width), 10 * width))

(* lines 74-92: |height / width - 1.3| = |10 height - 13 width| / (10 width) *)
_calculate_proportion_score(bbox) ==
    LET width == BboxWidth(bbox)
        height == BboxHeight(bbox)
    IN  IF width = 0 THEN Zero
        ELSE RMax(Zero, Rat(10 * width - Abs(10 * height - 13 * width), 10 * width))

(* lines 94-116; laplacian_var is cv2.Laplacian(gray_face, cv2.CV_64F).var() *)
_calculate_sharpness_score(bbox, laplacian_var) ==
    IF CropSize(bbox) = 0 THEN Zero
    ELSE RMin(Rat(laplacian_var, 500), One)

(* lines 118-164; pesos = (peso_confianca, peso_tamanho, peso_frontal,     *)
(* peso_proporcao, peso_nitidez)                                           *)
calculate_quality(bbox, confidence, landmarks, laplacian_var, pesos) ==
    LET score_confianca == _calculate_confidence_score(confidence)
        score_tamanho == _calculate_size_score(bbox)
        score_frontal == _calculate_frontal_score(landmarks)
        score_proporcao == _calculate_proportion_score(bbox)
        score_nitidez == _calculate_sharpness_score(bbox, laplacian_var)
        total_peso == pesos[1] + pesos[2] + pesos[3] + pesos[4] + pesos[5]
    IN  IF Raised \in { score_confianca, score_tamanho, score_frontal,
                        score_proporcao, score_nitidez }
        THEN Raised
        ELSE RDiv(RAdd(RAdd(RAdd(RAdd(RMul(score_confianca, pesos[1]),
                                      RMul(score_tamanho, pesos[2])),
                                 RMul(score_frontal, pesos[3])),
                            RMul(score_proporcao, pesos[4])),
                       RMul(score_nitidez, pesos[5])),
                  total_peso)

(* epsilon = 1e-6 (src/face_quality_score.py line 128) as 1 / EpsilonDen *)
EpsilonDen == 1000000

(* math.dist of two landmark points; the landmark sets of the model keep   *)
(* every distance an integer                                               *)
Dist(p, q) ==
    LET d2 == (p[1] - q[1]) * (p[1] - q[1]) + (p[2] - q[2]) * (p[2] - q[2])
    IN  CHOOSE d \in 0..d2 : d * d = d2

(* get_face_score, lines 89-136: with s the sum of the four distances,     *)
(* avg_dist = s / 4 and                                                    *)
(* symmetry_diff / (2 avg_dist + epsilon)                                  *)
(*     = 2 EpsilonDen symmetry_diff / (EpsilonDen s + 2)                   *)
get_face_score(landmarks) ==
    LET le == landmarks[1]
        re == landmarks[2]
        n == landmarks[3]
        lm == landmarks[4]
        rm == landmarks[5]
        dist_n_le == Dist(n, le)
        dist_n_re == Dist(n, re)
        dist_n_lm == Dist(n, lm)
        dist_n_rm == Dist(n, rm)
        s == dist_n_le + dist_n_re + dist_n_lm + dist_n_rm
        symmetry_diff == Abs(dist_n_le - dist_n_re) + Abs(dist_n_lm - dist_n_rm)
        score == Rat(EpsilonDen * s + 2 - 2 * EpsilonDen * symmetry_diff,
                     EpsilonDen * s + 2)
    IN  RMax(Zero, RMin(One, score))

(* the frontality that get_face_quality_score uses, lines 183-187 *)
frontal_ratio(landmarks) ==
    IF landmarks # << >> THEN get_face_score(landmarks) ELSE Rat(1, 100)

(* get_face_quality_score, lines 139-207; qualidade_cfg =                  *)
(* (tamanho_bbox, face_frontal)                                            *)
get_face_quality_score(bbox, landmarks, qualidade_cfg) ==
    LET frame_area == FrameWidth * FrameHeight
        w == IF bbox[3] - bbox[1] > 1 THEN bbox[3] - bbox[1] ELSE 1
        h == IF bbox[4] - bbox[2] > 1 THEN bbox[4] - bbox[2] ELSE 1
        bbox_area == w * h
        area_ratio == RMul(RMin(Rat(bbox_area, frame_area), Rat(1, 10)), 10)
        peso_tamanho_bbox == qualidade_cfg[1]
        peso_face_frontal == qualidade_cfg[2]
        score == RAdd(RMul(area_ratio, peso_tamanho_bbox),
                      RMul(frontal_ratio(landmarks), peso_face_frontal))
        peso_total == peso_tamanho_bbox + peso_face_frontal
        quotient == RDiv(score, peso_total)
    IN  IF quotient = Raised THEN Raised
        ELSE RMax(Zero, RMin(One, quotient))

(* ---- the detections that are scored ---- *)
(* the whole frame (13 : 10, the ideal proportion), a small box, a box of  *)
(* no width, a box of no height, a box beside the frame (its crop is       *)
(* empty), a flat box                                                      *)
QualityBoxes ==
    { <<0, 0, 10, 13>>, <<2, 2, 4, 4>>, <<5, 5, 5, 9>>, <<5, 5, 9, 5>>,
      <<12, 2, 14, 4>>, <<0, 0, 10, 1>> }

QualityConfidences == { <<0, 1>>, <<1, 2>>, <<1, 1>> }

(* the five landmarks (left eye, right eye, nose, mouth left, mouth right) *)
(* of a frontal face                                                       *)
FrontalFace == << <<1, 1>>, <<7, 1>>, <<4, 5>>, <<1, 9>>, <<7, 9>> >>

(* no landmarks; a frontal face; a face turned aside (nose under the left  *)
(* eye); a nose far outside the eyes; both eyes at the same place          *)
QualityLandmarks ==
    { << >>,
      FrontalFace,
      << <<1, 1>>, <<4, 1>>, <<1, 5>>, <<1, 9>>, <<4, 9>> >>,
      << <<1, 1>>, <<4, 1>>, <<9, 1>>, <<9, 4>>, <<9, 5>> >>,
      << <<4, 1>>, <<4, 1>>, <<4, 5>>, <<4, 9>>, <<4, 9>> >> }

QualityLaplacians == { 0, 250, 1000 }

(* the default weights of calculate_quality (lines 124-128), and weights   *)
(* that leave one sub-score alone                                          *)
QualityPesos == { <<3, 4, 6, 1, 1>>, <<0, 0, 1, 0, 0>>, <<0, 0, 0, 1, 0>> }

(* _DEFAULT_QUALIDADE (src/face_quality_score.py line 11) and weights that *)
(* leave one sub-score alone                                               *)
QualityCfgs == { <<2, 6>>, <<1, 0>>, <<0, 1>> }

Degenerate(bbox) ==
    \/ BboxWidth(bbox) = 0
    \/ BboxHeight(bbox) = 0
    \/ CropSize(bbox) = 0

QualityInit ==
    /\ quality \in [ by : {"nobody"}, bbox : QualityBoxes,
                     confidence : QualityConfidences,
                     landmarks : QualityLandmarks,
                     laplacian_var : QualityLaplacians,
                     pesos : QualityPesos, qualidade_cfg : QualityCfgs,
                     frontal : {Zero}, score : {Zero} ]
    /\ track_events = << >>
    /\ best = [ called |-> FALSE, result |-> None ]
    /\ movement = NotAsked
    /\ persisted = NothingPersisted
    /\ naming = NothingNamed
    /\ minting = NothingMinted
    /\ submission = NothingSubmitted
    /\ TrackIdleService

(* Event(...) of _create_event_from_detection scores the detection with     *)
(* FaceQualityService.calculate_quality                                     *)
QualityCalculate ==
    /\ quality.by = "nobody"
    /\ quality' = [ quality EXCEPT
                      !.by = "FaceQualityService",
                      !.frontal = _calculate_frontal_score(quality.landmarks),
                      !.score = calculate_quality(quality.bbox, quality.confidence,
                                                  quality.landmarks,
                                                  quality.laplacian_var,
                                                  quality.pesos) ]
    /\ UNCHANGED << service_vars, run_vars, cam_vars, track_events, best, movement,
                    persisted, naming, minting, submission >>

(* CameraProcessor._process_stream scores the detection with                *)
(* get_face_quality_score (src/camera_processor.py lines 137-142)           *)
QualityGetFaceQualityScore ==
    /\ quality.by = "nobody"
    /\ quality' = [ quality EXCEPT
                      !.by = "get_face_quality_score",
                      !.frontal = frontal_ratio(quality.landmarks),
                      !.score = get_face_quality_score(quality.bbox,
                                                       quality.landmarks,
                                                       quality.qualidade_cfg) ]
    /\ UNCHANGED << service_vars, run_vars, cam_vars, track_events, best, movement,
                    persisted, naming, minting, submission >>

QualityNext ==
    \/ QualityCalculate
    \/ QualityGetFaceQualityScore

QualitySpec == QualityInit /\ [][QualityNext]_vars

(***************************************************************************)
(* Saving and submitting the best observation of a finalized track:        *)
(* ByteTrackDetectorService._save_best_event and                           *)
(* FindfaceAdapter.send_event, and TrackProcessor.process                  *)
(* (src/track_processor.py).  A frame is its row of pixels; the overlay    *)
(* (box and label) paints the pixel at the box with a colour no camera     *)
(* pixel of the model has.                                                 *)
(***************************************************************************)
PixelValues == { 0, 1 }

OverlayColour == 2

(* cv2.rectangle / cv2.putText on image img at the box *)
Draw(img, at) == [ img EXCEPT ![at] = OverlayColour ]

(* the JPEG made of an image (cv2.imwrite, cv2.imencode, Frame.jpg) *)
Jpg(img) == [ format |-> "jpg", pixels |-> img ]

PersistInit ==
    /\ persisted \in
           { [ by |-> "nobody", pc |-> "finalize", original |-> img, frame |-> img,
               at |-> at, has_movement |-> moved, findface |-> adapter,
               file |-> NoImage, submitted |-> NoImage ]
             : img \in [ 1..MaxPixels -> PixelValues ], at \in 1..MaxPixels,
               moved \in BOOLEAN, adapter \in BOOLEAN }
    /\ track_events = << >>
    /\ best = [ called |-> FALSE, result |-> None ]
    /\ movement = NotAsked
    /\ quality = NoDetection
    /\ naming = NothingNamed
    /\ minting = NothingMinted
    /\ submission = NothingSubmitted
    /\ TrackIdleService

PersistOthersUnchanged ==
    UNCHANGED << service_vars, run_vars, cam_vars, track_events, best, movement, quality,
                 naming, minting, submission >>

(* _save_best_event (service lines 327-364): the overlay is drawn on        *)
(* event.frame.ndarray.copy() and that copy is written                      *)
SaveBestEvent ==
    /\ persisted.pc = "finalize"
    /\ LET frame_with_bbox == Draw(persisted.frame, persisted.at)
       IN  persisted' = [ persisted EXCEPT !.by = "ByteTrackDetectorService",
                                           !.pc = "saved",
                                           !.file = Jpg(frame_with_bbox) ]
    /\ PersistOthersUnchanged

(* _send_best_event_to_findface -> FindfaceAdapter.send_event (adapter      *)
(* line 101): imagem_bytes = event.frame.jpg(quality=95); called only with  *)
(* an adapter and a track that moved (service line 313)                     *)
SendBestEvent ==
    /\ persisted.pc = "saved"
    /\ persisted.by = "ByteTrackDetectorService"
    /\ persisted.findface /\ persisted.has_movement
    /\ persisted' = [ persisted EXCEPT !.pc = "sent",
                                       !.submitted = Jpg(persisted.frame) ]
    /\ PersistOthersUnchanged

(* TrackProcessor._save_best_frame (lines 103-140): cv2.rectangle and       *)
(* cv2.putText draw on the frame of the best detection itself, which is     *)
(* then written                                                             *)
SaveBestFrame ==
    /\ persisted.pc = "finalize"
    /\ LET frame == Draw(persisted.frame, persisted.at)
       IN  persisted' = [ persisted EXCEPT !.by = "TrackProcessor",
                                           !.pc = "saved",
                                           !.frame = frame,
                                           !.file = Jpg(frame) ]
    /\ PersistOthersUnchanged

(* TrackProcessor.process lines 80-82 and _send_best_frame_to_findface      *)
(* (lines 168-171): the same best_frame is encoded and submitted            *)
SendBestFrameToFindface ==
    /\ persisted.pc = "saved"
    /\ persisted.by = "TrackProcessor"
    /\ persisted.findface
    /\ persisted' = [ persisted EXCEPT !.pc = "sent",
                                       !.submitted = Jpg(persisted.frame) ]
    /\ PersistOthersUnchanged

PersistNext ==
    \/ SaveBestEvent
    \/ SendBestEvent
    \/ SaveBestFrame
    \/ SendBestFrameToFindface

PersistSpec == PersistInit /\ [][PersistNext]_vars

(***************************************************************************)
(* The path of the file of a finalized track:                              *)
(* ByteTrackDetectorService._save_best_event (lines 366-373) and           *)
(* CameraProcessor._save_best_frame (lines 227-230).  Several cameras of   *)
(* one process write below the same directory.  The timestamp is the wall  *)
(* clock read when the frame (service) or the detection (CameraProcessor)  *)
(* was taken, cut to milliseconds; the clock is read as often as the code  *)
(* asks within one millisecond.                                            *)
(***************************************************************************)
NoTimestamp == MaxClock + 1

(* strftime("%Y%m%d_%H%M%S_%f")[:-3] of a clock value in milliseconds *)
timestamp_str(ts) == << "ms", ts >>

(* service lines 368-373 *)
ServiceFilepath(track_id, ts, moved) ==
    << "./imagens/", "rtsp_byte_track_results",
       IF moved THEN "MOV" ELSE "STATIC", "Track", track_id, timestamp_str(ts) >>

(* camera_processor.py lines 229-230 *)
CameraFilepath(camera_id, track_id, ts) ==
    << "./imagens", "Camera", camera_id, "Track", track_id, timestamp_str(ts) >>

NameInit ==
    /\ naming \in
           { [ by |-> who, now |-> 0,
               best_timestamp |-> [c \in Cams |-> [t \in Ids |-> NoTimestamp]],
               files |-> {}, writes |-> 0 ]
             : who \in {"ByteTrackDetectorService", "CameraProcessor"} }
    /\ track_events = << >>
    /\ best = [ called |-> FALSE, result |-> None ]
    /\ movement = NotAsked
    /\ quality = NoDetection
    /\ persisted = NothingPersisted
    /\ minting = NothingMinted
    /\ submission = NothingSubmitted
    /\ TrackIdleService

NameOthersUnchanged ==
    UNCHANGED << service_vars, run_vars, cam_vars, track_events, best, movement, quality,
                 persisted, minting, submission >>

(* the wall clock reaches the next millisecond *)
NameClock ==
    /\ naming.now < MaxClock
    /\ naming' = [ naming EXCEPT !.now = @ + 1 ]
    /\ NameOthersUnchanged

(* camera c detects identity track_id: TimestampVO.now() (service line 199) *)
(* or datetime.now() (camera_processor.py line 145); the detection becomes  *)
(* the best of its track when is_best says its score is the highest         *)
NameObserve(c, track_id, is_best) ==
    /\ naming' = [ naming EXCEPT !.best_timestamp[c][track_id] =
                       IF is_best \/ @ = NoTimestamp THEN naming.now ELSE @ ]
    /\ naming' # naming
    /\ NameOthersUnchanged

(* camera c finalizes identity track_id and writes its file *)
NameSave(c, track_id, moved) ==
    /\ naming.best_timestamp[c][track_id] # NoTimestamp
    /\ naming.writes < MaxWrites
    /\ LET ts == naming.best_timestamp[c][track_id]
           filepath == IF naming.by = "ByteTrackDetectorService"
                       THEN ServiceFilepath(track_id, ts, moved)
                       ELSE CameraFilepath(c, track_id, ts)
       IN  naming' = [ naming EXCEPT !.files = @ \cup {filepath},
                                     !.writes = @ + 1,
                                     !.best_timestamp[c][track_id] = NoTimestamp ]
    /\ NameOthersUnchanged

NameNext ==
    \/ NameClock
    \/ \E c \in Cams, track_id \in Ids, is_best \in BOOLEAN : NameObserve(c, track_id, is_best)
    \/ \E c \in Cams, track_id \in Ids, moved \in BOOLEAN : NameSave(c, track_id, moved)

NameSpec == NameInit /\ [][NameNext]_vars

(***************************************************************************)
(* The identifiers of events.  ByteTrackDetectorService keeps              *)
(* self._event_id_counter, one per service and so one per camera (lines    *)
(* 101-103, 218, 235-236); only the thread of the service touches it.      *)
(* Event of src/event.py keeps the class attribute Event._id_counter       *)
(* (line 24), shared by the threads of all cameras, and its __init__ runs  *)
(* `Event._id_counter += 1` (a load, an addition and a store) followed by  *)
(* `self.id = Event._id_counter` (lines 46-47); a thread switch can fall   *)
(* between any two of these steps.  ids lists the identifiers given out.   *)
(***************************************************************************)
EventIdInit ==
    /\ minting \in
           { [ by |-> who,
               _event_id_counter |-> [c \in Cams |-> 0],
               _id_counter |-> 0,
               pc |-> [c \in Cams |-> "idle"],
               loaded |-> [c \in Cams |-> 0],
               ids |-> << >> ]
             : who \in {"ByteTrackDetectorService", "Event"} }
    /\ track_events = << >>
    /\ best = [ called |-> FALSE, result |-> None ]
    /\ movement = NotAsked
    /\ quality = NoDetection
    /\ persisted = NothingPersisted
    /\ naming = NothingNamed
    /\ submission = NothingSubmitted
    /\ TrackIdleService

EventIdOthersUnchanged ==
    UNCHANGED << service_vars, run_vars, cam_vars, track_events, best, movement, quality,
                 persisted, naming, submission >>

(* events whose creation has begun *)
Begun == Len(minting.ids) + Cardinality({ c \in Cams : minting.pc[c] # "idle" })

(* _create_event_from_detection of the service of camera c, lines 218 and   *)
(* 235-236: self._event_id_counter += 1; Event(id=IdVO(counter), ...)       *)
CreateEventFromDetection(c) ==
    /\ minting.by = "ByteTrackDetectorService"
    /\ Begun < MaxMinted
    /\ minting' = [ minting EXCEPT !._event_id_counter[c] = @ + 1,
                                   !.ids = Append(@, minting._event_id_counter[c] + 1) ]
    /\ EventIdOthersUnchanged

(* event.py line 46, first half: the thread of camera c loads              *)
(* Event._id_counter                                                        *)
EventLoadCounter(c) ==
    /\ minting.by = "Event"
    /\ minting.pc[c] = "idle"
    /\ Begun < MaxMinted
    /\ minting' = [ minting EXCEPT !.loaded[c] = minting._id_counter,
                                   !.pc[c] = "loaded" ]
    /\ EventIdOthersUnchanged

(* event.py line 46, second half: the sum is stored in Event._id_counter *)
EventStoreCounter(c) ==
    /\ minting.pc[c] = "loaded"
    /\ minting' = [ minting EXCEPT !._id_counter = minting.loaded[c] + 1,
                                   !.loaded[c] = 0,
                                   !.pc[c] = "stored" ]
    /\ EventIdOthersUnchanged

(* event.py line 47: self.id = Event._id_counter *)
EventAssignId(c) ==
    /\ minting.pc[c] = "stored"
    /\ minting' = [ minting EXCEPT !.ids = Append(@, minting._id_counter),
                                   !.pc[c] = "idle" ]
    /\ EventIdOthersUnchanged

EventIdNext ==
    \/ \E c \in Cams : CreateEventFromDetection(c)
    \/ \E c \in Cams : EventLoadCounter(c)
    \/ \E c \in Cams : EventStoreCounter(c)
    \/ \E c \in Cams : EventAssignId(c)

EventIdSpec == EventIdInit /\ [][EventIdNext]_vars

(***************************************************************************)
(* FindfaceAdapter.send_event, lines 103-120: the region of interest.      *)
(* width * 0.20 is a floating-point product: it is the exact fifth of the  *)
(* width or misses it by less than one part in UlpDen, to either side, and *)
(* so does what is computed from it.  Coordinates are kept as multiples of *)
(* 1 / RoiScale.                                                           *)
(***************************************************************************)
UlpDen == 1000000

RoiScale == 5 * UlpDen

FloatErr == { -1, 0, 1 }

(* width * 0.20 in units of 1 / RoiScale, with rounding error err / UlpDen *)
Expand(width, err) == width * UlpDen + (IF width > 0 THEN 5 * err ELSE 0)

(* int(v) of a float v that is not negative, v in units of 1 / RoiScale *)
IntOf(v) == v \div RoiScale

(* lines 104-120 without max(0, ...) and min(frame size, ...) *)
roi_unclamped(bbox, err_w, err_h) ==
    LET x1 == bbox[1]
        y1 == bbox[2]
        x2 == bbox[3]
        y2 == bbox[4]
        expand_w == Expand(x2 - x1, err_w)
        expand_h == Expand(y2 - y1, err_h)
    IN  << (x1 * RoiScale - expand_w) \div RoiScale,
           (y1 * RoiScale - expand_h) \div RoiScale,
           (x2 * RoiScale + expand_w) \div RoiScale,
           (y2 * RoiScale + expand_h) \div RoiScale >>

(* lines 104-120: roi = [left, top, right, bottom] *)
roi(bbox, err_w, err_h) ==
    LET x1 == bbox[1]
        y1 == bbox[2]
        x2 == bbox[3]
        y2 == bbox[4]
        expand_w == Expand(x2 - x1, err_w)
        expand_h == Expand(y2 - y1, err_h)
        x1_expanded == Max(0, x1 * RoiScale - expand_w)
        y1_expanded == Max(0, y1 * RoiScale - expand_h)
        x2_expanded == Min(FrameWidth * RoiScale, x2 * RoiScale + expand_w)
        y2_expanded == Min(FrameHeight * RoiScale, y2 * RoiScale + expand_h)
    IN  << IntOf(x1_expanded), IntOf(y1_expanded), IntOf(x2_expanded), IntOf(y2_expanded) >>

(* the bounding boxes that lie inside the frame *)
RoiBoxes ==
    { b \in (0..FrameWidth) \X (0..FrameHeight) \X (0..FrameWidth) \X (0..FrameHeight) :
        b[1] < b[3] /\ b[2] < b[4] }

RoiInit ==
    /\ submission \in { [ pc |-> "event", bbox |-> b, roi |-> << >> ] : b \in RoiBoxes }
    /\ track_events = << >>
    /\ best = [ called |-> FALSE, result |-> None ]
    /\ movement = NotAsked
    /\ quality = NoDetection
    /\ persisted = NothingPersisted
    /\ naming = NothingNamed
    /\ minting = NothingMinted
    /\ TrackIdleService

(* send_event(event): the region passed to add_face_event *)
SendEvent(err_w, err_h) ==
    /\ submission.pc = "event"
    /\ submission' = [ submission EXCEPT !.pc = "sent",
                                         !.roi = roi(submission.bbox, err_w, err_h) ]
    /\ UNCHANGED << service_vars, run_vars, cam_vars, track_events, best, movement,
                    quality, persisted, naming, minting >>

RoiNext == \E err_w \in FloatErr, err_h \in FloatErr : SendEvent(err_w, err_h)

RoiSpec == RoiInit /\ [][RoiNext]_vars

(***************************************************************************)
(* Properties                                                              *)
(***************************************************************************)
Range(f) == { f[x] : x \in DOMAIN f }

Uids == 1..Len(tracks)

(* the step is the table update of one detection (action Observe) *)
IsObserveStep == pc = "frame" /\ ndet' = ndet + 1

(* the step is one _update_lost_tracks call that returned (action Tick) *)
IsTickStep == pc = "frame" /\ pc' = "iter"

(* the step is one _finalize_all_tracks call (action FinalizeAll) *)
IsDrainStep == pc = "finalize" /\ pc' # "finalize"

(* every identity other than t keeps its Track, its events and its counter *)
OthersUnchanged(t) ==
    \A u \in Ids \ {t} :
        /\ (u \in DOMAIN active_tracks') = (u \in DOMAIN active_tracks)
        /\ (u \in DOMAIN track_frames_lost') = (u \in DOMAIN track_frames_lost)
        /\ u \in DOMAIN active_tracks =>
               /\ active_tracks'[u] = active_tracks[u]
               /\ tracks'[active_tracks[u]] = tracks[active_tracks[u]]
        /\ u \in DOMAIN track_frames_lost => track_frames_lost'[u] = track_frames_lost[u]

(* identity t received exactly one new Event, after its earlier ones *)
ObservedInto(t) ==
    /\ t \in DOMAIN active_tracks'
    /\ t \in DOMAIN track_frames_lost'
    /\ track_frames_lost'[t] = 0
    /\ LET uid == active_tracks'[t]
       IN  IF t \in DOMAIN active_tracks
           THEN /\ uid = active_tracks[t]
                /\ Len(tracks') = Len(tracks)
                /\ Len(tracks'[uid]) = Len(tracks[uid]) + 1
                /\ SubSeq(tracks'[uid], 1, Len(tracks[uid])) = tracks[uid]
                /\ tracks'[uid][Len(tracks'[uid])].id = event_id_counter'
           ELSE /\ uid = Len(tracks) + 1
                /\ Len(tracks') = Len(tracks) + 1
                /\ Len(tracks'[uid]) = 1
                /\ tracks'[uid][1].id = event_id_counter'
    /\ OthersUnchanged(t)

\* C1: processing one detection of identity t creates t's Track if t is unknown,
\* appends exactly one Event after the Track's earlier events, sets
\* track_frames_lost[t] to 0 and leaves every other identity's Track and
\* counter unchanged.
C1_ObserveEffect ==
    [][IsObserveStep => \E t \in Ids : ObservedInto(t)]_vars

\* C1 witness: an Event was appended to an already known Track while another
\* identity sits in the table with a positive miss counter.
C1_Witness ==
    /\ pc = "frame"
    /\ \E t \in current_frame_tracks, u \in DOMAIN track_frames_lost :
          /\ t # u
          /\ t \in DOMAIN active_tracks
          /\ Len(tracks[active_tracks[t]]) >= 2
          /\ track_frames_lost[u] > 0

\* C2: _update_lost_tracks(present) adds exactly 1 to the counter of every
\* identity of the table that is not in present, leaves the identities in
\* present untouched, finalizes and removes from both maps exactly the
\* identities whose counter after the increment is >= max_frames_lost, and
\* keeps all other identities in the table.
C2_TickEffect ==
    [][IsTickStep =>
        \A t \in DOMAIN track_frames_lost :
            LET after == IF t \in current_frame_tracks
                         THEN track_frames_lost[t] ELSE track_frames_lost[t] + 1
                uid == active_tracks[t]
            IN  /\ t \in DOMAIN active_tracks
                /\ tracks'[uid] = tracks[uid]
                /\ IF after >= max_frames_lost
                   THEN /\ t \notin DOMAIN active_tracks'
                        /\ t \notin DOMAIN track_frames_lost'
                        /\ Len(saved'[uid]) = Len(saved[uid]) + 1
                   ELSE /\ t \in DOMAIN active_tracks'
                        /\ t \in DOMAIN track_frames_lost'
                        /\ active_tracks'[t] = uid
                        /\ track_frames_lost'[t] = after
                        /\ saved'[uid] = saved[uid]
                /\ t \in current_frame_tracks =>
                       /\ t \in DOMAIN active_tracks'
                       /\ track_frames_lost'[t] = track_frames_lost[t]
      ]_vars

\* C2 witness: a tick has just evicted one identity while the other identity,
\* present in the frame, stayed in the table.
C2_Witness ==
    /\ pc = "iter"
    /\ evicted_now # {}
    /\ \E t \in DOMAIN track_frames_lost : track_frames_lost[t] = 0

\* C3: a tick evicts an identity only in the frame that is its
\* max_frames_lost-th consecutive processed frame without that identity since
\* its last observation, never earlier; an identity that survives a tick has
\* fewer than max_frames_lost such frames behind it.
C3_EvictAtNthMiss ==
    [][IsTickStep =>
        \A t \in DOMAIN active_tracks :
            IF t \in DOMAIN active_tracks'
            THEN missed'[t] < max_frames_lost
            ELSE /\ t \notin current_frame_tracks
                 /\ missed[t] + 1 = max_frames_lost
      ]_vars

\* C3 witness: with threshold 3 an identity has just been evicted by a tick.
C3_Witness ==
    /\ pc = "iter"
    /\ max_frames_lost = 3
    /\ evicted_now # {}

\* C4: an identity evicted by a tick is in neither map afterwards, and the
\* next detection of an identity whose earlier Track was finalized creates a
\* new Track object holding exactly that one Event and none of the finalized
\* Track's events, with miss counter 0.
C4_FreshTrackAfterEviction ==
    [][/\ IsTickStep =>
            \A t \in evicted_now' :
                t \notin DOMAIN active_tracks' /\ t \notin DOMAIN track_frames_lost'
       /\ IsObserveStep =>
            \A t \in Ids :
                (/\ t \notin DOMAIN active_tracks
                 /\ t \in DOMAIN active_tracks'
                 /\ \E old \in Uids : saved[old] # << >> /\ saved[old][1].track_id = t)
                =>
                LET uid == active_tracks'[t]
                IN  /\ uid \notin Uids
                    /\ Len(tracks'[uid]) = 1
                    /\ tracks'[uid][1].id = event_id_counter'
                    /\ \A old \in Uids : \A i \in 1..Len(tracks[old]) :
                           tracks[old][i].id # tracks'[uid][1].id
                    /\ track_frames_lost'[t] = 0
                    /\ saved'[uid] = << >>
      ]_vars

\* C4 witness: an identity whose Track was evicted by a tick is back in the
\* table with a new Track of one Event.
C4_Witness ==
    \E old \in Uids :
        /\ saved[old] # << >>
        /\ LET t == saved[old][1].track_id
           IN  /\ t \in DOMAIN active_tracks
               /\ active_tracks[t] # old
               /\ Len(tracks[active_tracks[t]]) = 1
               /\ track_frames_lost[t] = 0
               /\ ~drained

\* C5: no Track object is finalized more than once, and a Track object that
\* has been finalized never receives another Event.
C5_FinalizedOnceAndFrozen ==
    [][\A uid \in Uids :
          /\ Len(saved'[uid]) <= 1
          /\ saved[uid] # << >> => tracks'[uid] = tracks[uid]
      ]_vars

\* C5 witness: after a reconnect and shutdown two Track objects of the same
\* identity have each been finalized.
C5_Witness ==
    /\ pc = "done"
    /\ \E a \in Uids, b \in Uids :
          /\ a # b
          /\ saved[a] # << >> /\ saved[b] # << >>
          /\ saved[a][1].track_id = saved[b][1].track_id
    /\ event_id_counter > Len(tracks)

\* C6: every non-empty Track object that is no longer in the table had its
\* best event passed to _save_best_event exactly once, and a Track still in
\* the table has not been saved.
C6_RemovedTrackSavedOnce ==
    \A uid \in Uids :
        tracks[uid] # << >> =>
            IF uid \in Range(active_tracks)
            THEN saved[uid] = << >>
            ELSE /\ Len(saved[uid]) = 1
                 /\ saved[uid][1].event = get_best_event(tracks[uid])

\* C6 witness: one Track left the table by threshold eviction and another by
\* the shutdown drain.
C6_Witness ==
    /\ pc = "done"
    /\ evicted_now # {}
    /\ drained_ids # {}
    /\ \A uid \in Uids : uid \notin Range(active_tracks)

\* C7: _finalize_all_tracks finalizes every identity found in active_tracks
\* exactly once and leaves active_tracks and track_frames_lost empty.
C7_DrainAll ==
    [][IsDrainStep =>
          /\ \A t \in DOMAIN active_tracks :
                /\ saved[active_tracks[t]] = << >>
                /\ Len(saved'[active_tracks[t]]) = 1
          /\ \A uid \in Uids \ Range(active_tracks) : saved'[uid] = saved[uid]
          /\ DOMAIN active_tracks' = {}
          /\ DOMAIN track_frames_lost' = {}
          /\ pc' = "done"
      ]_vars

\* C7 witness: the drain returned after finalizing two identities at once.
C7_Witness ==
    /\ pc = "done"
    /\ drained
    /\ Cardinality(drained_ids) >= 2

Ended == pc \in {"done", "aborted"}

\* C8: whenever _process_stream has ended, _finalize_all_tracks was executed
\* before it and no Track is left in the table.
C8_DrainOnEveryExit ==
    Ended => (drained /\ DOMAIN active_tracks = {})

\* C9: active_tracks and track_frames_lost always have the same key set, and
\* an identity leaves one map exactly when it leaves the other.
C9_SameKeys ==
    [][/\ DOMAIN active_tracks = DOMAIN track_frames_lost
       /\ DOMAIN active_tracks' = DOMAIN track_frames_lost'
       /\ \A t \in Ids :
             (t \in DOMAIN active_tracks /\ t \notin DOMAIN active_tracks')
             <=> (t \in DOMAIN track_frames_lost /\ t \notin DOMAIN track_frames_lost')
      ]_vars

\* C9 witness: a tick has evicted one identity and the table still holds another.
C9_Witness ==
    /\ pc = "iter"
    /\ evicted_now # {}
    /\ DOMAIN active_tracks # {}
    /\ DOMAIN track_frames_lost # {}

\* C10: no Track held in active_tracks has zero events.
C10_NoEmptyTrack ==
    \A t \in DOMAIN active_tracks : ~is_empty(tracks[active_tracks[t]])

\* C10 witness: a frame is being processed after an Event construction
\* failed and the supervisor reconnected, with a new Track in the table.
C10_Witness ==
    /\ pc = "frame"
    /\ DOMAIN active_tracks # {}
    /\ \E t \in DOMAIN active_tracks :
          /\ Len(tracks[active_tracks[t]]) = 1
          /\ tracks[active_tracks[t]][1].id > 1
          /\ Len(tracks) = 1

(* ---- the supervisor loop: reconnection, stop, failures ---- *)
LoopPcs == {"while", "iter", "frame", "sleep"}

\* C11: a source failure is caught and followed by the backoff sleep, the
\* sleep returns to the loop test, the loop test of a running supervisor
\* starts the next connection attempt, and the loop is left only when the
\* running flag is clear or a KeyboardInterrupt was raised: never because of
\* failures, however many.
C11_RetryUntilStopped ==
    [][/\ (pc = "sleep" /\ pc' # "sleep" /\ ~interrupted') => pc' = "while"
       /\ (pc = "while" /\ pc' # "while" /\ running) => pc' = "iter"
       /\ (pc \in LoopPcs /\ pc' \notin LoopPcs) => (~running \/ interrupted')
      ]_vars

\* C11 witness: the supervisor is in the backoff sleep after a failure, still
\* running, with a Track waiting in the table.
C11_Witness ==
    /\ pc = "sleep"
    /\ running
    /\ ~interrupted
    /\ DOMAIN active_tracks # {}

\* C12: when the stream of a running supervisor terminates (the source read
\* ends without a frame, by an error or by the end of the frame sequence, and
\* no KeyboardInterrupt is raised), the supervisor goes into the backoff
\* sleep before anything else, so that every termination costs one sleep
\* before the next connection attempt.
C12_BackoffAfterTermination ==
    [][(pc = "iter" /\ running /\ pc' \notin {"iter", "frame"} /\ ~interrupted')
          => pc' = "sleep"
      ]_vars

(* the number of Events held by all Track objects ever created *)
RECURSIVE TotalEvents(_)
TotalEvents(n) ==
    IF n = 0 THEN 0 ELSE Len(tracks[n]) + TotalEvents(n - 1)

\* C13: the steps of a failure (entering the backoff sleep, leaving it, the
\* next connection attempt) leave active_tracks, track_frames_lost and the
\* Tracks' events as they are, and every detection taken from a frame so far
\* (counted by _event_id_counter) is an Event of exactly one Track.
C13_NothingLostAcrossFailure ==
    /\ [][(pc' = "sleep" \/ pc = "sleep" \/ (pc = "while" /\ pc' = "iter"))
             => UNCHANGED << active_tracks, track_frames_lost, tracks >>
         ]_vars
    /\ [](event_id_counter = TotalEvents(Len(tracks)))

(* the steps by which the thread of _process_stream goes on without a     *)
(* KeyboardInterrupt: the pending source read or sleep returns, the frame  *)
(* in progress is finished, the loop test and the drain are executed       *)
Proceeds ==
    \/ ENABLED (\/ LoopEnter \/ LoopExit
                \/ SourceYield \/ SourceYieldStopped \/ SourceFail \/ SourceEnd
                \/ SleepDone)
    \/ pc = "frame" /\ \E st \in TickOutcomes : ENABLED TickTo(st)
    \/ pc = "finalize" /\ \E st \in FinalizeAllOutcomes : ENABLED FinalizeAllTo(st)

(* how far a stopped supervisor is from the end of _process_stream *)
StopRank ==
    CASE pc = "frame" -> 5
      [] pc = "iter" -> 4
      [] pc = "sleep" -> 3
      [] pc = "while" -> 2
      [] pc = "finalize" -> 1
      [] OTHER -> 0

\* C14: while the running flag is clear no frame is taken up and no
\* connection attempt is started; once stop() has cleared the flag, every
\* step made without a KeyboardInterrupt finishes the frame in progress or
\* brings the supervisor nearer to the end of _process_stream, such a step is
\* possible until the end is reached, and at the end the table is drained.
C14_StopEndsTheRun ==
    /\ [][~running => /\ ~(pc = "iter" /\ pc' = "frame")
                      /\ ~(pc = "while" /\ pc' = "iter")
         ]_vars
    /\ [][(~running /\ pc # "init" /\ ~interrupted')
             => \/ StopRank' < StopRank
                \/ pc = "frame" /\ pc' = "frame" /\ ndet' = ndet + 1
         ]_vars
    /\ []((~running /\ pc # "init" /\ ~interrupted)
             => \/ Proceeds
                \/ pc = "done" /\ drained /\ DOMAIN active_tracks = {})

\* C14 witness: stop() was called, no interrupt was raised, and the
\* supervisor has ended after draining a table that held Tracks.
C14_Witness ==
    /\ pc = "done"
    /\ ~running
    /\ ~interrupted
    /\ drained
    /\ drained_ids # {}
    /\ DOMAIN active_tracks = {}

\* C15: every frame taken up by a running supervisor ends, unless a
\* KeyboardInterrupt is raised, with one _update_lost_tracks call made with
\* the identities detected in the frame, after which the next frame is read.
C15_TickEndsEveryFrame ==
    [][(pc = "frame" /\ pc' # "frame" /\ ~interrupted')
          => /\ pc' = "iter"
             /\ \E st \in { UpdateLostTracks(TableStateFailing(save_failed', send_failed'),
                                             current_frame_tracks) } :
                   /\ active_tracks' = st.active
                   /\ track_frames_lost' = st.lost
                   /\ saved' = st.saved
                   /\ sent' = st.sent
      ]_vars

(* ---- finalization: local persistence and remote sink ---- *)
(* Track object u is in the table before the step and not after it *)
FinalizedNow(u) ==
    \E t \in DOMAIN active_tracks :
       /\ active_tracks[t] = u
       /\ (t \notin DOMAIN active_tracks' \/ active_tracks'[t] # u)

Last(log) == log[Len(log)]

\* C16: a step that finalizes a non-empty Track passes its best event to
\* _save_best_event exactly once whether it moved or not, and passes it to
\* _send_best_event_to_findface exactly once if has_movement is true and an
\* adapter is configured, and not at all otherwise; no other step saves or
\* sends.
C16_SaveAlwaysSendIfMoved ==
    [][\A u \in Uids :
          IF FinalizedNow(u) /\ ~is_empty(tracks[u])
          THEN /\ Len(saved'[u]) = Len(saved[u]) + 1
               /\ Last(saved'[u]).event = get_best_event(tracks[u])
               /\ IF findface_adapter
                     /\ has_movement(tracks[u], min_movement_threshold, PctNum, PctDen)
                  THEN /\ Len(sent'[u]) = Len(sent[u]) + 1
                       /\ Last(sent'[u]).event = get_best_event(tracks[u])
                  ELSE sent'[u] = sent[u]
          ELSE /\ saved'[u] = saved[u]
               /\ sent'[u] = sent[u]
      ]_vars

\* C16 witness: with an adapter configured, a Track of two events that did
\* not move was saved and not sent, and a Track that moved was saved and sent.
C16_Witness ==
    /\ findface_adapter
    /\ \E u \in Uids :
          /\ Len(tracks[u]) = 2
          /\ Len(saved[u]) = 1
          /\ ~saved[u][1].has_movement
          /\ Len(sent[u]) = 0
    /\ \E u \in Uids :
          /\ Len(saved[u]) = 1
          /\ saved[u][1].has_movement
          /\ Len(sent[u]) = 1

\* C17: a step in which a save or a send fails has the outcome it has when
\* nothing fails: the same Tracks are removed from both maps, the same save
\* calls and the same send calls are made (the send of a Track whose save
\* failed included), and the supervisor goes on to the next frame, or, in the
\* drain, to the end of _process_stream.
C17_FailuresAreContained ==
    [][(save_failed' \/ send_failed')
          => \/ /\ pc = "frame"
                /\ pc' = "iter"
                /\ \E st \in { UpdateLostTracks(TableState, current_frame_tracks) } :
                      /\ active_tracks' = st.active
                      /\ track_frames_lost' = st.lost
                      /\ saved' = st.saved
                      /\ sent' = st.sent
             \/ /\ pc = "finalize"
                /\ pc' = "done"
                /\ \E st \in { FinalizeAllTracks(TableState) } :
                      /\ active_tracks' = st.active
                      /\ track_frames_lost' = st.lost
                      /\ saved' = st.saved
                      /\ sent' = st.sent
      ]_vars

\* C17 witness: one tick has finalized two moving Tracks while saves and
\* sends failed; both were saved and sent, the table is empty and the
\* supervisor is reading the next frame.
C17_Witness ==
    /\ pc = "iter"
    /\ save_failed
    /\ send_failed
    /\ Cardinality(evicted_now) = 2
    /\ DOMAIN active_tracks = {}
    /\ \A u \in Uids : Len(saved[u]) = 1 /\ Len(sent[u]) = 1

(* ---- the launchers ---- *)
\* C18: unless the user interrupts main, every camera's supervisor gets
\* started, and processes a frame if its source delivers frames, whatever
\* the sources of the other cameras do.
C18_EveryCameraStarts ==
    \A j \in Cams :
       <>(\/ main_pc \in {"except", "exit"}
          \/ /\ proc_pc[j] \notin {"new", "launched"}
             /\ source_up[j] => proc_frames[j] > 0)

C20_BestIsFirstMaximum ==
    best.called =>
       IF track_events = << >>
       THEN best.result = None
       ELSE /\ best.result # None
            /\ \E i \in 1..Len(track_events) :
                  /\ track_events[i] = best.result
                  /\ \A j \in 1..Len(track_events) :
                        track_events[j].score <= best.result.score
                  /\ \A j \in 1..(i - 1) :
                        track_events[j].score < best.result.score

\* C20 witness: the second and the third of three events share the largest
\* score and get_best_event has returned the second.
C20_Witness ==
    /\ best.called
    /\ Len(track_events) = 3
    /\ track_events[1].score < track_events[2].score
    /\ track_events[2].score = track_events[3].score
    /\ best.result = track_events[2]


\* C21: Track.has_movement answers true for a Track with exactly one event
\* whatever the two thresholds passed to it, and false for a Track with no
\* event.
C21_OneEventMovesEmptyDoesNot ==
    movement.called =>
        /\ (Len(track_events) = 1 => movement.result = TRUE)
        /\ (Len(track_events) = 0 => movement.result = FALSE)

\* C21 witness: has_movement was asked about a Track with one event with the
\* largest pixel threshold and a required fraction of 1, and answered true.
C21_Witness ==
    /\ movement.called
    /\ Len(track_events) = 1
    /\ movement.threshold = 81
    /\ movement.pct = <<1, 1>>
    /\ movement.result = TRUE

(* four times the squared distance between the centres of two boxes *)
CentreDistance4(b1, b2) ==
    LET dx == (b2[1] + b2[3]) - (b1[1] + b1[3])
        dy == (b2[2] + b2[4]) - (b1[2] + b1[4])
    IN  dx * dx + dy * dy

(* the number of pairs (events[j], events[j+1]), j >= i, whose centres are *)
(* at least threshold pixels apart                                          *)
RECURSIVE MovingPairs(_, _, _)
MovingPairs(events, i, threshold) ==
    IF i >= Len(events) THEN 0
    ELSE (IF CentreDistance4(events[i].bbox, events[i + 1].bbox)
               >= 4 * threshold * threshold THEN 1 ELSE 0)
         + MovingPairs(events, i + 1, threshold)

\* C22: for a Track with n >= 2 events has_movement is true exactly when the
\* number of consecutive pairs of events whose box centres are at least
\* min_threshold_pixels apart, divided by n - 1, is at least
\* min_frame_percentage.
C22_MovementIsFractionOfPairs ==
    (movement.called /\ Len(track_events) >= 2) =>
        (movement.result <=>
            MovingPairs(track_events, 1, movement.threshold) * movement.pct[2]
                >= movement.pct[1] * (Len(track_events) - 1))

\* C22 witness: three events, the first two with centres exactly 50 px apart
\* and the last two at the same place; asked with 50 px and one half,
\* has_movement answered true (one pair of two).
C22_Witness ==
    /\ movement.called
    /\ Len(track_events) = 3
    /\ track_events[1].bbox = <<0, 0, 10, 13>>
    /\ track_events[2].bbox = <<30, 40, 40, 53>>
    /\ track_events[3].bbox = <<30, 40, 40, 53>>
    /\ movement.threshold = 50
    /\ movement.pct = <<1, 2>>
    /\ movement.result = TRUE


\* C23: the quality score of a detection is a number from 0 to 1, whichever
\* scorer computed it, for every box (those without area included), every
\* confidence from 0 to 1, landmarks present or absent, and non-negative
\* weights that are not all zero.
C23_ScoreBetweenZeroAndOne ==
    quality.by # "nobody" =>
        /\ quality.score # Raised
        /\ RLeq(Zero, quality.score)
        /\ RLeq(quality.score, One)

\* C23 witness: FaceQualityService scored a box without area and without
\* landmarks with the default weights, and the score lies strictly between
\* 0 and 1.
C23_Witness ==
    /\ quality.by = "FaceQualityService"
    /\ BboxArea(quality.bbox) = 0
    /\ quality.landmarks = << >>
    /\ quality.pesos = <<3, 4, 6, 1, 1>>
    /\ quality.score # Raised
    /\ ~RLeq(quality.score, Zero)
    /\ ~RLeq(One, quality.score)

\* C24: for a detection without landmarks the frontality sub-score is the
\* constant 0.01, not 1.0, and the detection does not score higher than the
\* same detection with the landmarks of a frontal face.
C24_NoLandmarksLowFrontality ==
    (quality.by # "nobody" /\ quality.landmarks = << >>) =>
        /\ quality.frontal = Rat(1, 100)
        /\ quality.frontal # One
        /\ RLeq(quality.score,
                IF quality.by = "FaceQualityService"
                THEN calculate_quality(quality.bbox, quality.confidence, FrontalFace,
                                       quality.laplacian_var, quality.pesos)
                ELSE get_face_quality_score(quality.bbox, FrontalFace,
                                            quality.qualidade_cfg))

C27_SentAtMostOnce ==
    /\ [](\A u \in Uids :
             /\ Len(sent[u]) <= 1
             /\ sent[u] # << >> => u \notin Range(active_tracks))
    /\ [][\A u \in Uids : sent[u] # << >> => sent'[u] = sent[u]]_vars
    /\ [][send_failed' =>
            \E u \in Uids :
                /\ FinalizedNow(u)
                /\ sent[u] = << >>
                /\ Len(sent'[u]) = 1
         ]_vars

\* C27 witness: a submission has just failed during the tick of a frame; the
\* Track it belonged to has one submission on record and the supervisor goes
\* on with the next frame.
C27_Witness ==
    /\ send_failed
    /\ pc = "iter"
    /\ \E u \in Uids :
          /\ Len(sent[u]) = 1
          /\ u \notin Range(active_tracks)


(* seq is the beginning of longer *)
IsPrefix(seq, longer) ==
    /\ Len(seq) <= Len(longer)
    /\ \A i \in 1..Len(seq) : longer[i] = seq[i]

\* C28: Events are numbered in the order in which the single thread creates
\* them, frame after frame, so an Event of a later frame has a larger id; the
\* events of every Track stand in increasing order of id; an observation puts
\* the newest Event at the end of its Track and leaves every event already
\* stored where it is; and no other step (failure, backoff sleep,
\* reconnection, tick, drain) changes the events of any Track.
C28_EventsInArrivalOrder ==
    /\ [](\A u \in Uids :
             \A i, j \in 1..Len(tracks[u]) :
                 i < j => tracks[u][i].id < tracks[u][j].id)
    /\ [](\A u \in Uids : \A i \in 1..Len(tracks[u]) :
             tracks[u][i].id <= event_id_counter)
    /\ [][event_id_counter' >= event_id_counter]_vars
    /\ [][/\ Len(tracks') >= Len(tracks)
          /\ \A u \in Uids : IsPrefix(tracks[u], tracks'[u])
          /\ \A u \in 1..Len(tracks') : \A i \in 1..Len(tracks'[u]) :
                (u \notin Uids \/ i > Len(tracks[u]))
                    => /\ IsObserveStep
                       /\ i = Len(tracks'[u])
                       /\ tracks'[u][i].id = event_id_counter'
                       /\ tracks'[u][i].id > event_id_counter
         ]_vars

\* C28 witness: a Track holds the Events 1 and 3 in this order; Event 2 was
\* never stored (its construction raised, the supervisor slept and
\* reconnected in between).
C28_Witness ==
    /\ \E u \in Uids :
          /\ Len(tracks[u]) = 2
          /\ tracks[u][1].id = 1
          /\ tracks[u][2].id = 3
    /\ \A u \in Uids : \A i \in 1..Len(tracks[u]) : tracks[u][i].id # 2


\* C29: finalizing leaves the frame of the best observation as it was
\* captured; the file written shows the frame with the overlay; the image
\* submitted to the remote sink is the frame without the overlay.
C29_BestFrameStaysClean ==
    persisted.by # "nobody" =>
        /\ persisted.frame = persisted.original
        /\ persisted.file = Jpg(Draw(persisted.original, persisted.at))
        /\ persisted.submitted # NoImage
               => persisted.submitted = Jpg(persisted.original)


\* C30: once max_reconnect_attempts attempts have failed in a row with no
\* frame read in between, CameraProcessor retries no more: _process_stream
\* is at its final _finalize_all_tracks or has returned.
C30_GivesUpAfterMaxAttempts ==
    failed_attempts >= max_reconnect_attempts =>
        /\ pc \in {"final", "finalize_track", "done"}
        /\ pc = "finalize_track" => caller = "final"


\* C31: in CameraProcessor the frame that closes a batch is followed by the
\* tick, whether or not the frame has detections.
C31_EmptyFrameStillTicks ==
    [][(pc = "boxes" /\ pc' # "boxes" /\ frame_count % batch_size = 0)
           => pc' = "tick"]_vars


\* C32: in CameraProcessor the set of present identities handed to a tick is
\* exactly the set of identities detected since the previous tick.
C32_TickSeesTheBatchOnly ==
    pc = "tick" => current_frame_tracks = seen_since_tick


\* C33: no two finalized tracks of one process run are written under the
\* same path: there are as many files as there were writes.
C33_EveryWriteHasItsOwnPath ==
    naming.by # "nobody" => Cardinality(naming.files) = naming.writes


\* C34: no two events of one process run receive the same identifier,
\* whichever camera or thread created them.
C34_EventIdsAreUnique ==
    \A i, j \in DOMAIN minting.ids :
        i # j => minting.ids[i] # minting.ids[j]


\* C35: a stop() is never lost: once detectorrbt.py has called stop() on
\* every supervisor, no supervisor has its running flag set, whether or
\* not its thread had executed start() when stop() was called.
C35_StopIsNeverLost ==
    (launcher = "detectorrbt" /\ main_pc = "exit")
        => \A i \in Cams : ~proc_running[i]


\* a supervisor of run.py whose start() has returned with the running flag
\* still set: it was ended by a user interrupt, not by stop()
Interrupted(i) == proc_pc[i] = "returned" /\ proc_running[i]

\* C36: in run.py no supervisor is started once a user interrupt has ended
\* a running supervisor.
C36_NothingStartsAfterInterrupt ==
    [][(/\ launcher = "run"
        /\ \E i \in Cams : Interrupted(i))
          => \A j \in Cams : proc_pc[j] = "new" => proc_pc'[j] = "new"]_vars


\* C37: every identity of the table has a miss-counter from 0 to
\* max_frames_lost - 1: no counter that reached the threshold outlives its
\* tick; an identity detected in the frame has counter 0, while the frame
\* is processed and when its tick has run.
C37_CountersBelowThreshold ==
    /\ [](\A t \in DOMAIN track_frames_lost :
              /\ 0 <= track_frames_lost[t]
              /\ track_frames_lost[t] < max_frames_lost)
    /\ [](pc = "frame" =>
              \A t \in current_frame_tracks :
                  /\ t \in DOMAIN track_frames_lost
                  /\ track_frames_lost[t] = 0)
    /\ [][(pc = "frame" /\ pc' = "iter") =>
              \A t \in current_frame_tracks :
                  /\ t \in DOMAIN track_frames_lost'
                  /\ track_frames_lost'[t] = 0]_vars

\* C37 witness: a tick has just evicted an identity that reached the
\* threshold 2 and left in the table another one that has missed one frame.
C37_Witness ==
    /\ pc = "iter"
    /\ max_frames_lost = 2
    /\ evicted_now # {}
    /\ \E t \in DOMAIN track_frames_lost : track_frames_lost[t] = 1


\* C38: an exception raised while a frame is processed is handled like a
\* source failure: the frame is left for the backoff sleep with its other
\* detections and its tick skipped and with the table, the counters and the
\* files and submissions as they were; the sleep is followed by the loop
\* test and, while running, by a new connection.
C38_FrameFailureIsSourceFailure ==
    /\ [][(pc = "frame" /\ pc' \notin {"frame", "iter"} /\ ~interrupted')
             => /\ pc' = "sleep"
                /\ UNCHANGED << running, active_tracks, track_frames_lost, tracks,
                                saved, sent >>
         ]_vars
    /\ [][(pc = "sleep" /\ pc' # "sleep" /\ ~interrupted') => pc' = "while"]_vars
    /\ [](pc = "while" /\ running => ENABLED LoopEnter)

\* C38 witness: the supervisor sleeps after the newest detection of a frame
\* failed while a Track is in the table.
C38_Witness ==
    /\ pc = "sleep"
    /\ DOMAIN active_tracks # {}
    /\ event_id_counter > TotalEvents(Len(tracks))
    /\ \A u \in 1..Len(tracks) : \A k \in 1..Len(tracks[u]) :
          tracks[u][k].id < event_id_counter


\* C39: for a bounding box inside the frame the region of interest sent by
\* send_event contains the box and lies inside the frame, and each side is
\* moved outwards by 20% of the box's width or height, cut to an integer,
\* unless the frame's edge stops it.
C39_RoiContainsBoxInsideFrame ==
    submission.pc = "sent" =>
        LET x1 == submission.bbox[1]
            y1 == submission.bbox[2]
            x2 == submission.bbox[3]
            y2 == submission.bbox[4]
            left == submission.roi[1]
            top == submission.roi[2]
            right == submission.roi[3]
            bottom == submission.roi[4]
        IN  /\ 0 <= left /\ left <= x1
            /\ 0 <= top /\ top <= y1
            /\ x2 <= right /\ right <= FrameWidth
            /\ y2 <= bottom /\ bottom <= FrameHeight
            /\ 5 * (x1 - left) <= (x2 - x1) + 5
            /\ left = 0 \/ 5 * (x1 - left) >= x2 - x1
            /\ 5 * (y1 - top) <= (y2 - y1) + 5
            /\ top = 0 \/ 5 * (y1 - top) >= y2 - y1
            /\ 5 * (right - x2) <= x2 - x1
            /\ right = FrameWidth \/ 5 * (right - x2) >= (x2 - x1) - 5
            /\ 5 * (bottom - y2) <= y2 - y1
            /\ bottom = FrameHeight \/ 5 * (bottom - y2) >= (y2 - y1) - 5

\* C39 witness: a region was sent that the frame stops on the left and on
\* the right and that grows freely upwards and downwards.
C39_Witness ==
    /\ submission.pc = "sent"
    /\ submission.bbox[1] > 0 /\ submission.roi[1] = 0
    /\ submission.bbox[3] < FrameWidth /\ submission.roi[3] = FrameWidth
    /\ 0 < submission.roi[2] /\ submission.roi[2] < submission.bbox[2]
    /\ submission.bbox[4] < submission.roi[4] /\ submission.roi[4] < FrameHeight

====
